---- MODULE Spec2Model ----
(***************************************************************************)
(* Verification model of the QBdt register (include/qbdt.hpp): the binary  *)
(* decision tree of scales, the per-qubit shard buffers, the flush rules   *)
(* and the two traversals between the tree and a flat amplitude array.     *)
(*                                                                         *)
(* Amplitudes are Gaussian integers <<re, im>>: an exact sub-ring of the   *)
(* complex numbers, so that products, sums and 2x2 matrix application are  *)
(* computed exactly as the code computes them.                             *)
(***************************************************************************)
EXTENDS Integers, Sequences, FiniteSets, TLC

\* ------------------------------------------------------------------ bounds
MaxQubits == 2
MaxGates == 2
MaxSets == 1
NumWorkers == 2
MaxMeas == 2
NumDevices == 2
MaxAlloc == 2

\* ------------------------------------------------------- complex arithmetic
ZERO_CMPLX == <<0, 0>>
ONE_CMPLX == <<1, 0>>
I_CMPLX == <<0, 1>>

CAdd(a, b) == <<a[1] + b[1], a[2] + b[2]>>
CMul(a, b) == <<a[1] * b[1] - a[2] * b[2], a[1] * b[2] + a[2] * b[1]>>
CConj(a) == <<a[1], 0 - a[2]>>

\* The phase of a scale when it is one of the four axis units, else 1.
UnitPhase(c) ==
    IF c[2] = 0 /\ c[1] < 0 THEN <<0 - 1, 0>>
    ELSE IF c[1] = 0 /\ c[2] > 0 THEN I_CMPLX
    ELSE IF c[1] = 0 /\ c[2] < 0 THEN <<0, 0 - 1>>
    ELSE ONE_CMPLX

Amps == {ZERO_CMPLX, ONE_CMPLX, I_CMPLX}

\* ------------------------------------------------------------ permutations
Pow2(k) == 2 ^ k

SelectBit(perm, bit) == (perm \div Pow2(bit)) % 2

Perms(n) == 0 .. (Pow2(n) - 1)

Qubits(n) == 0 .. (n - 1)

\* ------------------------------------------------------------------ gates
\* A 2x2 matrix is the row-major tuple <<m0, m1, m2, m3>>.
NoShard == <<>>

MtrxX == <<ZERO_CMPLX, ONE_CMPLX, ONE_CMPLX, ZERO_CMPLX>>
MtrxS == <<ONE_CMPLX, ZERO_CMPLX, ZERO_CMPLX, I_CMPLX>>
MtrxH == <<ONE_CMPLX, ONE_CMPLX, ONE_CMPLX, <<0 - 1, 0>> >>

Gates == {MtrxX, MtrxS, MtrxH}

Mul2x2(a, b) ==
    << CAdd(CMul(a[1], b[1]), CMul(a[2], b[3])),
       CAdd(CMul(a[1], b[2]), CMul(a[2], b[4])),
       CAdd(CMul(a[3], b[1]), CMul(a[4], b[3])),
       CAdd(CMul(a[3], b[2]), CMul(a[4], b[4])) >>

IsPhase(gate) == gate[2] = ZERO_CMPLX /\ gate[3] = ZERO_CMPLX

\* ------------------------------------------------------------------- tree
\* A tree maps every path (the branch choices from the root) to the scale
\* of the node there, or to NoNode where the branch pointer is null.
NoNode == <<>>

AllPaths == UNION {[1 .. k -> {0, 1}] : k \in 0 .. MaxQubits}

IsPrefix(p, q) == Len(p) <= Len(q) /\ SubSeq(q, 1, Len(p)) = p

EmptyTree == [p \in AllPaths |-> NoNode]

\* QBdtNode(): a node of scale 1 without children.
NewRoot == [EmptyTree EXCEPT ![<<>>] = ONE_CMPLX]

\* Branch(depth) called on the node at path p.
Branch(t, p, depth) ==
    [q \in AllPaths |->
        IF IsPrefix(p, q) /\ Len(q) <= Len(p) + depth /\ t[q] = NoNode
        THEN ONE_CMPLX ELSE t[q]]

\* A SetZero that drops the branches and keeps the scale.
SetZeroKeepScale(t, p) ==
    [q \in AllPaths |->
        IF q = p THEN t[q]
        ELSE IF IsPrefix(p, q) THEN NoNode ELSE t[q]]

\* SetZero(): scale 0 and both branches null.
SetZero(t, p) ==
    [q \in AllPaths |->
        IF q = p THEN ZERO_CMPLX
        ELSE IF IsPrefix(p, q) THEN NoNode ELSE t[q]]

\* The leaf that the descent of SetTraversal reaches for index i.
LeafPath(i, n) == [j \in 1 .. n |-> SelectBit(i, j - 1)]

RECURSIVE PopStateVector(_, _, _)
PopStateVector(t, p, depth) ==
    IF depth = 0 THEN t
    ELSE IF t[p] = ZERO_CMPLX \/ t[Append(p, 0)] = NoNode THEN SetZero(t, p)
    ELSE LET p0 == Append(p, 0)
             p1 == Append(p, 1)
             t1 == PopStateVector(PopStateVector(t, p0, depth - 1), p1, depth - 1)
             s0 == t1[p0]
             s1 == t1[p1]
         IN  IF s0 = ZERO_CMPLX /\ s1 = ZERO_CMPLX THEN SetZero(t1, p)
             ELSE IF s0 = ZERO_CMPLX
                  THEN [SetZero(t1, p0) EXCEPT ![p] = s1, ![p1] = ONE_CMPLX]
             ELSE IF s1 = ZERO_CMPLX
                  THEN [SetZero(t1, p1) EXCEPT ![p] = s0, ![p0] = ONE_CMPLX]
             ELSE [t1 EXCEPT ![p] = ONE_CMPLX]

RECURSIVE Prune(_, _, _)
Prune(t, p, depth) ==
    IF depth = 0 THEN t
    ELSE IF t[p] = ZERO_CMPLX \/ t[Append(p, 0)] = NoNode THEN SetZero(t, p)
    ELSE LET p0 == Append(p, 0)
             p1 == Append(p, 1)
             t1 == Prune(Prune(t, p0, depth - 1), p1, depth - 1)
             ph == IF t1[p0] = ZERO_CMPLX THEN UnitPhase(t1[p1])
                   ELSE UnitPhase(t1[p0])
         IN  [t1 EXCEPT ![p] = CMul(t1[p], ph),
                        ![p0] = CMul(t1[p0], CConj(ph)),
                        ![p1] = CMul(t1[p1], CConj(ph))]

\* The descent of GetTraversal for index i, from the node at path p with the
\* scale accumulated so far, at depth j.
RECURSIVE Descend(_, _, _, _, _, _)
Descend(t, n, i, p, scale, j) ==
    IF j >= n THEN scale
    ELSE LET leaf == Append(p, SelectBit(i, j))
         IN  IF t[leaf] = NoNode THEN scale
             ELSE Descend(t, n, i, leaf, CMul(scale, t[leaf]), j + 1)

GetAmpNoRoot(t, n, i) == Descend(t, n, i, <<>>, ONE_CMPLX, 0)

GetAmp(t, n, i) == Descend(t, n, i, <<>>, t[<<>>], 0)

GetAmps(t, n) == [i \in Perms(n) |-> GetAmp(t, n, i)]

\* The leaf assignments of SetTraversal, index by index.
RECURSIVE SetLeaves(_, _, _, _)
SetLeaves(t, n, a, i) ==
    IF i >= Pow2(n) THEN t
    ELSE SetLeaves([t EXCEPT ![LeafPath(i, n)] = a[i]], n, a, i + 1)

\* The tree SetTraversal leaves for the flat array a.
BuildTree(n, a) ==
    Prune(PopStateVector(SetLeaves(Branch(NewRoot, <<>>, n), n, a, 0), <<>>, n), <<>>, n)

\* ApplySingle(mtrx, target): the 2x2 matrix applied to every pair of
\* amplitudes that differ in the target bit only.
ApplySingle(t, n, mtrx, target) ==
    LET a == GetAmps(t, n)
        pw == Pow2(target)
        b == [i \in Perms(n) |->
                IF SelectBit(i, target) = 0
                THEN CAdd(CMul(mtrx[1], a[i]), CMul(mtrx[2], a[i + pw]))
                ELSE CAdd(CMul(mtrx[3], a[i - pw]), CMul(mtrx[4], a[i]))]
    IN  BuildTree(n, b)

\* --------------------------------------------------------------- register
VARIABLES qubitCount, root, shards, out, eager, gateCount, setCount, lastOp

regVars == <<qubitCount, root, shards, out, eager, gateCount, setCount, lastOp>>

\* FlushBuffer taken statement by statement: where the call is (fpc), its
\* argument t (ft), its local shard (fshard) and how ApplySingle ended (fres).
VARIABLES fpc, ft, fshard, fres

flushVars == <<fpc, ft, fshard, fres>>

\* A traversal with its workers: where the calling thread is (pc), the
\* shared index counter of _par_for (idx), each worker's position (wst), the
\* index it holds (widx), the scale or leaf its descent ended with (wval,
\* wleaf), whether the descent met a null branch (wnull); the flat array of
\* the caller (flat), the deliveries per index (cnt), the holder of the
\* node mutex (mtx), the node being expanded (enode) and the allocations
\* made per node (allocs).
VARIABLES pc, idx, wst, widx, wval, wleaf, wnull, flat, cnt, mtx, enode, allocs

parVars == <<pc, idx, wst, widx, wval, wleaf, wnull, flat, cnt, mtx, enode, allocs>>

\* A call delegated to the flat engine, statement by statement: where the
\* call is (epc), the amplitudes of the engine qReg (eng), the value the
\* operation returned (eret), the value the call returned (eout) and the
\* operation with its arguments (ecall).
VARIABLES epc, eng, eret, eout, ecall

execVars == <<epc, eng, eret, eout, ecall>>

\* Measurement: the common denominator of the amplitudes (den), so that the
\* amplitude of index i is GetAmp(root, n, i) / den, and the record of the
\* last measurement call (mlast) and the number of such calls (measCount).
VARIABLES den, mlast, measCount

measVars == <<den, mlast, measCount>>

\* The last call of a helper on permutation indices, with its result.
VARIABLES bcall

bigVars == <<bcall>>

\* CUDAEngine's accounting: the counters (activeAllocSizes, indexed from 0),
\* the thread that holds allocMutex, and the call each thread is in.
VARIABLES activeAllocSizes, allocMutex, athr

allocVars == <<activeAllocSizes, allocMutex, athr>>

\* SetTraversal and Prune taken one tree pass at a time: where the caller
\* is (tpc) and the amplitudes a traversal read before the last pass (tlast).
VARIABLES tpc, tlast

treeVars == <<tpc, tlast>>

\* Tree surgery: the register composed onto this one (other), the
\* destination of a decomposition (dest), where the caller is (spc) and the
\* amplitudes the two registers had before they were composed (orig).
VARIABLES other, dest, spc, orig

surgVars == <<other, dest, spc, orig>>

extVars == <<execVars, measVars, bigVars, allocVars, treeVars, surgVars>>

\* No call of the kind has been made yet.
NoCall == [op |-> "none", perm |-> 0, amp |-> ZERO_CMPLX]

NoValue == 0 - 1

\* No measurement call has been made yet.
NoMeas ==
    [op |-> "none", impl |-> "none", q |-> 0, b |-> 0, doForce |-> FALSE,
     doApply |-> FALSE, mask |-> 0, powers |-> <<>>, ret |-> NoValue,
     raw |-> NoValue, path |-> "none", pre |-> <<>>, preDen |-> 1,
     fq |-> NoValue, fb |-> NoValue]

\* No second register.
NoReg == [n |-> 0, root |-> <<>>, shards |-> <<>>, log |-> <<>>]

NoOrig == [n1 |-> 0, a1 |-> <<>>, a2 |-> <<>>]

\* A thread that is in no call of the accounting functions.
NoThread ==
    [fn |-> "none", dev |-> 0, size |-> 0, pc |-> "idle", lDev |-> 0, ret |-> 0,
     ex |-> FALSE, oob |-> FALSE, race |-> FALSE]

NoBig ==
    [fn |-> "none", impl |-> "none", x |-> 0, y |-> 0, ret |-> 0, rem |-> 0,
     trap |-> FALSE]

NoShards(n) == [q \in Qubits(n) |-> NoShard]

\* The register a handler works on, with the ApplySingle calls it has made.
Reg(n, t, sh) == [n |-> n, root |-> t, shards |-> sh, log |-> <<>>]

DumpBuffersKeep(r) == r

DumpBuffers(r) == [r EXCEPT !.shards = NoShards(r.n)]

\* A FlushBuffer that empties the whole vector of buffers.
FlushBufferClearAll(r, t) ==
    LET shard == r.shards[t]
    IN  IF shard # NoShard
        THEN [r EXCEPT !.shards = NoShards(r.n),
                       !.root = ApplySingle(r.root, r.n, shard, t),
                       !.log = Append(r.log, <<t, shard>>)]
        ELSE [r EXCEPT !.shards = NoShards(r.n)]

FlushBufferDrop(r, t) == [r EXCEPT !.shards[t] = NoShard]

FlushBuffer(r, t) ==
    LET shard == r.shards[t]
    IN  IF shard # NoShard
        THEN [r EXCEPT !.shards[t] = NoShard,
                       !.root = ApplySingle(r.root, r.n, shard, t),
                       !.log = Append(r.log, <<t, shard>>)]
        ELSE r

RECURSIVE FlushBuffersFrom(_, _)
FlushBuffersFrom(r, i) ==
    IF i >= r.n THEN r ELSE FlushBuffersFrom(FlushBuffer(r, i), i + 1)

FlushBuffers(r) == FlushBuffersFrom(r, 0)

RECURSIVE FlushControlsAll(_, _)
FlushControlsAll(r, controls) ==
    IF controls = <<>> THEN r
    ELSE FlushControlsAll(FlushBuffer(r, Head(controls)), Tail(controls))

\* FlushIfBlocked(controls)
RECURSIVE FlushIfBlockedControls(_, _)
FlushIfBlockedControls(r, controls) ==
    IF controls = <<>> THEN r
    ELSE LET control == Head(controls)
             shard == r.shards[control]
             r1 == IF shard # NoShard /\ ~IsPhase(shard)
                   THEN [r EXCEPT !.shards[control] = NoShard,
                                  !.root = ApplySingle(r.root, r.n, shard, control),
                                  !.log = Append(r.log, <<control, shard>>)]
                   ELSE r
         IN  FlushIfBlockedControls(r1, Tail(controls))

FlushIfBlockedLazy(r, target, controls) ==
    FlushIfBlockedControls(r, Append(controls, target))

\* FlushIfBlocked(target, controls)
FlushIfBlocked(r, target, controls) ==
    FlushBuffer(FlushIfBlockedControls(r, controls), target)

RECURSIVE FlushNonPhaseBuffersFrom(_, _)
FlushNonPhaseBuffersFrom(r, i) ==
    IF i >= r.n THEN r
    ELSE LET shard == r.shards[i]
             r1 == IF shard # NoShard /\ ~IsPhase(shard)
                   THEN [r EXCEPT !.shards[i] = NoShard,
                                  !.root = ApplySingle(r.root, r.n, shard, i),
                                  !.log = Append(r.log, <<i, shard>>)]
                   ELSE r
         IN  FlushNonPhaseBuffersFrom(r1, i + 1)

FlushNonPhaseBuffers(r) == FlushNonPhaseBuffersFrom(r, 0)

GetTraversalNoFlush(r) == r

\* GetTraversal up to the point where the workers start.
GetTraversalFlush(r) == FlushBuffers(r)

\* SetTraversal, with the leaf values taken from the flat array a.
SetTraversal(r, a) == [DumpBuffers(r) EXCEPT !.root = BuildTree(r.n, a)]

\* Mtrx(mtrx, target): compose into the pending buffer, or install it.
MtrxBuffer(sh, mtrx, target) ==
    IF sh[target] # NoShard
    THEN [sh EXCEPT ![target] = Mul2x2(mtrx, sh[target])]
    ELSE [sh EXCEPT ![target] = mtrx]

\* ------------------------------------------------------------------ inputs
RECURSIVE SetToSeq(_)
SetToSeq(S) ==
    IF S = {} THEN <<>>
    ELSE LET m == CHOOSE x \in S : \A y \in S : x <= y
         IN  <<m>> \o SetToSeq(S \ {m})

\* The flat arrays handed to SetQuantumState: x at index 0 and y at index
\* 1 or at the last index, and one array without a zero entry.
StateArraysOf ==
    [n \in 1 .. MaxQubits |->
        {[i \in Perms(n) |-> IF i = j THEN x ELSE IF i = k THEN y ELSE ZERO_CMPLX] :
            j \in {0}, k \in {1, Pow2(n) - 1}, x \in Amps, y \in Amps}
        \cup {[i \in Perms(n) |-> IF i % 2 = 0 THEN ONE_CMPLX ELSE I_CMPLX]}]

Unread == <<>>

Workers == 1 .. NumWorkers

NoHolder == 0

Caller == NumWorkers + 1

Pending(sh) == {q \in DOMAIN sh : sh[q] # NoShard}

\* The record of the last call: its arguments, the buffers before it (pre,
\* pend), the ApplySingle calls it made (log) and, for GetQuantumState, the
\* array and the pending buffers of a SetQuantumState that came right before.
Op(name, t, cs, pre, log, arr, dumped) ==
    [op |-> name, t |-> t, cs |-> cs, pre |-> pre, log |-> log, arr |-> arr,
     pend |-> Pending(shards), dumped |-> dumped]

\* The register after construction: |0...0>, no pending buffer.
Init ==
    /\ qubitCount \in 1 .. MaxQubits
    /\ root = BuildTree(qubitCount,
                  [i \in Perms(qubitCount) |-> IF i = 0 THEN ONE_CMPLX ELSE ZERO_CMPLX])
    /\ shards = NoShards(qubitCount)
    /\ out = Unread
    /\ eager = root
    /\ gateCount = 0
    /\ setCount = 0
    /\ lastOp = [op |-> "Init", t |-> 0, cs |-> <<>>, pre |-> <<>>,
                 log |-> <<>>, arr |-> <<>>, pend |-> {}, dumped |-> {}]
    /\ fpc = "idle"
    /\ ft = 0
    /\ fshard = NoShard
    /\ fres = "none"
    /\ pc = "idle"
    /\ idx = 0
    /\ wst = [w \in Workers |-> "idle"]
    /\ widx = [w \in Workers |-> 0]
    /\ wval = [w \in Workers |-> ZERO_CMPLX]
    /\ wleaf = [w \in Workers |-> <<>>]
    /\ wnull = [w \in Workers |-> FALSE]
    /\ flat = <<>>
    /\ cnt = <<>>
    /\ mtx = NoHolder
    /\ enode = <<>>
    /\ allocs = [p \in AllPaths |-> 0]
    /\ epc = "idle"
    /\ eng = <<>>
    /\ eret = NoValue
    /\ eout = NoValue
    /\ ecall = NoCall
    /\ den = 1
    /\ mlast = NoMeas
    /\ measCount = 0
    /\ bcall = NoBig
    /\ activeAllocSizes = [d \in 0 .. (NumDevices - 1) |-> 0]
    /\ allocMutex = NoHolder
    /\ athr = [w \in Workers |-> NoThread]
    /\ tpc = "idle"
    /\ tlast = <<>>
    /\ other = NoReg
    /\ dest = NoReg
    /\ spc = "idle"
    /\ orig = NoOrig

Cur == Reg(qubitCount, root, shards)

Commit(r) ==
    /\ root' = r.root
    /\ shards' = r.shards

MtrxCall ==
    \E mtrx \in Gates, target \in Qubits(qubitCount) :
        /\ gateCount < MaxGates
        /\ gateCount' = gateCount + 1
        /\ shards' = MtrxBuffer(shards, mtrx, target)
        /\ eager' = ApplySingle(eager, qubitCount, mtrx, target)
        /\ out' = Unread
        /\ lastOp' = Op("Mtrx", target, <<>>, <<>>, <<>>, mtrx, {})
        /\ UNCHANGED <<qubitCount, root, setCount>>

DoFlushIfBlocked ==
    \E target \in Qubits(qubitCount) :
        \E cs \in SUBSET (Qubits(qubitCount) \ {target}) :
            LET controls == SetToSeq(cs)
                r == FlushIfBlocked(Cur, target, controls)
            IN  /\ Commit(r)
                /\ out' = Unread
                /\ lastOp' = Op("FlushIfBlocked", target, controls, shards, r.log, <<>>, {})
                /\ UNCHANGED <<qubitCount, eager, gateCount, setCount>>

DoFlushIfBlockedControls ==
    \E cs \in SUBSET Qubits(qubitCount) :
        LET controls == SetToSeq(cs)
            r == FlushIfBlockedControls(Cur, controls)
        IN  /\ Commit(r)
            /\ out' = Unread
            /\ lastOp' = Op("FlushIfBlockedControls", 0, controls, shards, r.log, <<>>, {})
            /\ UNCHANGED <<qubitCount, eager, gateCount, setCount>>

DoFlushNonPhaseBuffers ==
    LET r == FlushNonPhaseBuffers(Cur)
    IN  /\ Commit(r)
        /\ out' = Unread
        /\ lastOp' = Op("FlushNonPhaseBuffers", 0, <<>>, shards, r.log, <<>>, {})
        /\ UNCHANGED <<qubitCount, eager, gateCount, setCount>>

GetQuantumState ==
    LET r == GetTraversalFlush(Cur)
    IN  /\ Commit(r)
        /\ out' = GetAmps(r.root, qubitCount)
        /\ lastOp' = Op("GetQuantumState", 0, <<>>, shards, r.log,
                        IF lastOp.op = "SetQuantumState" THEN lastOp.arr ELSE <<>>,
                        IF lastOp.op = "SetQuantumState" THEN lastOp.pend ELSE {})
        /\ UNCHANGED <<qubitCount, eager, gateCount, setCount>>

SetQuantumState ==
    \E a \in StateArraysOf[qubitCount] :
        LET r == SetTraversal(Cur, a)
        IN  /\ setCount < MaxSets
            /\ setCount' = setCount + 1
            /\ Commit(r)
            /\ eager' = BuildTree(qubitCount, a)
            /\ out' = Unread
            /\ lastOp' = Op("SetQuantumState", 0, <<>>, <<>>, r.log, a, {})
            /\ UNCHANGED <<qubitCount, gateCount>>

vars == <<regVars, flushVars, parVars, extVars>>

Mtrx == MtrxCall /\ UNCHANGED <<flushVars, parVars, extVars>>

CallFlushIfBlocked == DoFlushIfBlocked /\ UNCHANGED <<flushVars, parVars, extVars>>

CallFlushIfBlockedControls ==
    DoFlushIfBlockedControls /\ UNCHANGED <<flushVars, parVars, extVars>>

CallFlushNonPhaseBuffers ==
    DoFlushNonPhaseBuffers /\ UNCHANGED <<flushVars, parVars, extVars>>

CallGetQuantumState == GetQuantumState /\ UNCHANGED <<flushVars, parVars, extVars>>

CallSetQuantumState == SetQuantumState /\ UNCHANGED <<flushVars, parVars, extVars>>

Next ==
    \/ Mtrx
    \/ CallFlushIfBlocked
    \/ CallFlushIfBlockedControls
    \/ CallFlushNonPhaseBuffers
    \/ CallGetQuantumState
    \/ CallSetQuantumState

Spec == Init /\ [][Next]_vars

\* ------------------------------------------- FlushBuffer, step by step
\* const MpsShardPtr shard = shards[t]; if (shard) { shards[t] = NULL; ...
FlushBufferEnter ==
    \E t \in Qubits(qubitCount) :
        /\ fpc = "idle"
        /\ shards[t] # NoShard
        /\ ft' = t
        /\ fshard' = shards[t]
        /\ shards' = [shards EXCEPT ![t] = NoShard]
        /\ fpc' = "apply"
        /\ fres' = "none"
        /\ UNCHANGED <<qubitCount, root, out, eager, gateCount, setCount, lastOp, parVars, extVars>>

\* ... ApplySingle(shard->gate, t); } returns.
FlushBufferApply ==
    /\ fpc = "apply"
    /\ root' = ApplySingle(root, qubitCount, fshard, ft)
    /\ fpc' = "idle"
    /\ fres' = "committed"
    /\ UNCHANGED <<qubitCount, shards, out, eager, gateCount, setCount, lastOp,
                   ft, fshard, parVars, extVars>>

\* ... ApplySingle(shard->gate, t); } fails to allocate and the failure
\* propagates to the caller before the tree is touched.
FlushBufferThrow ==
    /\ fpc = "apply"
    /\ fpc' = "idle"
    /\ fres' = "thrown"
    /\ UNCHANGED <<qubitCount, root, shards, out, eager, gateCount, setCount, lastOp,
                   ft, fshard, parVars, extVars>>

FlushMtrx ==
    /\ fpc = "idle"
    /\ MtrxCall
    /\ fres' = "none"
    /\ UNCHANGED <<fpc, ft, fshard, parVars, extVars>>

NextFlush ==
    \/ FlushMtrx
    \/ FlushBufferEnter
    \/ FlushBufferApply
    \/ FlushBufferThrow

SpecFlush == Init /\ [][NextFlush]_vars

\* ------------------------------------ delegation to the flat engine
CNeg(a) == <<0 - a[1], 0 - a[2]>>

\* The operations run on the flat engine: SetAmplitude(perm, amp),
\* PhaseFlipIfLess(greaterPerm) and an indexed load that moves the amplitude
\* of index i to index (i + perm) mod 2^n and returns perm.
EngineOps == {"SetAmplitude", "PhaseFlipIfLess", "IndexedLDA"}

EngineOp(call, n, a) ==
    IF call.op = "SetAmplitude" THEN [a EXCEPT ![call.perm] = call.amp]
    ELSE IF call.op = "PhaseFlipIfLess"
    THEN [i \in Perms(n) |-> IF i < call.perm THEN CNeg(a[i]) ELSE a[i]]
    ELSE [i \in Perms(n) |-> a[(i + Pow2(n) - call.perm) % Pow2(n)]]

EngineRet(call) == IF call.op = "IndexedLDA" THEN call.perm ELSE NoValue

\* QInterfacePtr qReg = MakeQEngine(qubitCount): a fresh engine in |0...0>.
MakeQEngine(n) == [i \in Perms(n) |-> IF i = 0 THEN ONE_CMPLX ELSE ZERO_CMPLX]

ExecMtrx ==
    /\ epc = "idle"
    /\ MtrxCall
    /\ UNCHANGED <<flushVars, parVars, extVars>>

\* ExecuteAsStateVector / BitCapIntAsStateVector is entered: MakeQEngine.
ExecuteBegin ==
    \E op \in EngineOps, perm \in Perms(qubitCount), amp \in {ONE_CMPLX, I_CMPLX} :
        /\ epc = "idle"
        /\ setCount < MaxSets
        /\ op # "SetAmplitude" => amp = ONE_CMPLX
        /\ ecall' = [op |-> op, perm |-> perm, amp |-> amp]
        /\ eng' = MakeQEngine(qubitCount)
        /\ eret' = NoValue
        /\ eout' = NoValue
        /\ epc' = "get"
        /\ lastOp' = Op("ExecuteBegin", 0, <<>>, shards, <<>>, <<>>, {})
        /\ UNCHANGED <<qubitCount, root, shards, out, eager, gateCount, setCount,
                       flushVars, parVars, measVars, bigVars, allocVars, treeVars, surgVars>>

ExecuteGetNoFlush(r) == r

\* GetQuantumState(qReg): FlushBuffers() in GetTraversal before the copy.
ExecuteGetFlush(r) == GetTraversalFlush(r)

\* GetQuantumState(qReg): eng->SetAmplitude(i, scale) for every index.
ExecuteGet ==
    LET r == ExecuteGetFlush(Cur)
    IN  /\ epc = "get"
        /\ Commit(r)
        /\ eng' = GetAmps(r.root, qubitCount)
        /\ epc' = "operate"
        /\ lastOp' = Op("ExecuteGet", 0, <<>>, shards, r.log, <<>>, {})
        /\ UNCHANGED <<qubitCount, out, eager, gateCount, setCount,
                       eret, eout, ecall,
                       flushVars, parVars, measVars, bigVars, allocVars, treeVars, surgVars>>

\* operation(qReg), or toRet = operation(qReg).
ExecuteOperate ==
    /\ epc = "operate"
    /\ eng' = EngineOp(ecall, qubitCount, eng)
    /\ eret' = EngineRet(ecall)
    /\ eager' = BuildTree(qubitCount, EngineOp(ecall, qubitCount, GetAmps(eager, qubitCount)))
    /\ epc' = "set"
    /\ lastOp' = Op("ExecuteOperate", 0, <<>>, shards, <<>>, eng, {})
    /\ UNCHANGED <<qubitCount, root, shards, out, gateCount, setCount,
                   eout, ecall,
                   flushVars, parVars, measVars, bigVars, allocVars, treeVars, surgVars>>

\* SetQuantumState(qReg), then return (toRet).
ExecuteSet ==
    LET r == SetTraversal(Cur, eng)
    IN  /\ epc = "set"
        /\ Commit(r)
        /\ setCount' = setCount + 1
        /\ eout' = eret
        /\ epc' = "idle"
        /\ out' = Unread
        /\ lastOp' = Op("ExecuteSet", 0, <<>>, shards, r.log, eng, {})
        /\ UNCHANGED <<qubitCount, eager, gateCount,
                       eng, eret, ecall,
                       flushVars, parVars, measVars, bigVars, allocVars, treeVars, surgVars>>

NextExec ==
    \/ ExecMtrx
    \/ ExecuteBegin
    \/ ExecuteGet
    \/ ExecuteOperate
    \/ ExecuteSet

SpecExec == Init /\ [][NextExec]_vars

\* ----------------------------------------------------------- tree surgery
\* Compose(toCopy, start) with start = qubitCount: the tree o of n2 levels
\* is grafted onto every leaf of the tree t of n1 levels, the scale of the
\* leaf multiplied by the scale of the grafted root.
ComposeNoScale(t, n1, o, n2) ==
    [q \in AllPaths |->
        IF Len(q) <= n1 THEN t[q]
        ELSE LET h == SubSeq(q, 1, n1)
                 r == SubSeq(q, n1 + 1, Len(q))
             IN  IF Len(q) > n1 + n2 \/ t[h] = NoNode \/ t[h] = ZERO_CMPLX
                 THEN NoNode
                 ELSE o[r]]

ComposeTree(t, n1, o, n2) ==
    [q \in AllPaths |->
        IF Len(q) < n1 THEN t[q]
        ELSE LET h == SubSeq(q, 1, n1)
                 r == SubSeq(q, n1 + 1, Len(q))
             IN  IF Len(q) > n1 + n2 \/ t[h] = NoNode THEN NoNode
                 ELSE IF r = <<>> THEN CMul(t[h], o[<<>>])
                 ELSE IF t[h] = ZERO_CMPLX THEN NoNode
                 ELSE o[r]]

\* The first node at the given depth that carries amplitude: branch 0
\* unless it is null or of zero scale.
RECURSIVE FirstNode(_, _, _)
FirstNode(t, p, depth) ==
    IF depth = 0 THEN p
    ELSE IF t[Append(p, 0)] # NoNode /\ t[Append(p, 0)] # ZERO_CMPLX
         THEN FirstNode(t, Append(p, 0), depth - 1)
         ELSE FirstNode(t, Append(p, 1), depth - 1)

\* DecomposeDispose(start, length, dest) with start + length = qubitCount:
\* the subtree of length levels below the first node at depth start goes
\* to dest with the unit phase of that node; the nodes at depth start become
\* the leaves of this tree, their scales divided by the same phase.
DecomposeDest(t, start, length) ==
    LET q0 == FirstNode(t, <<>>, start)
    IN  [r \in AllPaths |->
            IF r = <<>> THEN UnitPhase(t[q0])
            ELSE IF Len(r) <= length THEN t[q0 \o r]
            ELSE NoNode]

DecomposeRest(t, start, length) ==
    LET q0 == FirstNode(t, <<>>, start)
    IN  [q \in AllPaths |->
            IF Len(q) < start THEN t[q]
            ELSE IF Len(q) > start \/ t[q] = NoNode THEN NoNode
            ELSE CMul(t[q], CConj(UnitPhase(t[q0])))]

\* The norm-preserving gates with entries 0, 1, i only.
UnitGates == {MtrxX, MtrxS}

\* The states registers are prepared in: the arrays with entries 0, 1, i,
\* the all-zero array left out.
Prepared(n) == {a \in StateArraysOf[n] : \E i \in Perms(n) : a[i] # ZERO_CMPLX}

\* This register is prepared by SetQuantumState.
SurgSetState ==
    \E a \in Prepared(qubitCount) :
        LET r == SetTraversal(Cur, a)
        IN  /\ spc = "idle"
            /\ other = NoReg
            /\ setCount < MaxSets
            /\ setCount' = setCount + 1
            /\ Commit(r)
            /\ eager' = BuildTree(qubitCount, a)
            /\ out' = Unread
            /\ lastOp' = Op("SetQuantumState", 0, <<>>, <<>>, r.log, a, {})
            /\ UNCHANGED <<qubitCount, gateCount, flushVars, parVars, extVars>>

\* A second register of n2 qubits is constructed and prepared.
SurgMakeOther ==
    \E n2 \in 1 .. MaxQubits :
        \E a \in Prepared(n2) :
            /\ spc = "idle"
            /\ other = NoReg
            /\ qubitCount + n2 <= MaxQubits
            /\ other' = Reg(n2, BuildTree(n2, a), NoShards(n2))
            /\ lastOp' = Op("MakeOther", 0, <<>>, shards, <<>>, a, {})
            /\ UNCHANGED <<qubitCount, root, shards, out, eager, gateCount, setCount,
                           flushVars, parVars, execVars, measVars, bigVars, allocVars, treeVars,
                           dest, spc, orig>>

\* Mtrx on this register, or on the second one.
SurgMtrx ==
    \E mtrx \in UnitGates :
        \E target \in Qubits(qubitCount) :
            /\ spc = "idle"
            /\ gateCount < MaxGates
            /\ gateCount' = gateCount + 1
            /\ shards' = MtrxBuffer(shards, mtrx, target)
            /\ eager' = ApplySingle(eager, qubitCount, mtrx, target)
            /\ out' = Unread
            /\ lastOp' = Op("Mtrx", target, <<>>, <<>>, <<>>, mtrx, {})
            /\ UNCHANGED <<qubitCount, root, setCount, flushVars, parVars, extVars>>

SurgOtherMtrx ==
    \E mtrx \in UnitGates :
        \E target \in Qubits(other.n) :
            /\ spc = "idle"
            /\ other # NoReg
            /\ gateCount < MaxGates
            /\ gateCount' = gateCount + 1
            /\ other' = [other EXCEPT !.shards = MtrxBuffer(other.shards, mtrx, target)]
            /\ lastOp' = Op("OtherMtrx", target, <<>>, <<>>, <<>>, mtrx, {})
            /\ UNCHANGED <<qubitCount, root, shards, out, eager, setCount,
                           flushVars, parVars, execVars, measVars, bigVars, allocVars, treeVars,
                           dest, spc, orig>>

\* Compose(other, qubitCount): the pending buffers of both registers are
\* committed, the tree of the other is grafted, the qubit count grows.
DoCompose ==
    LET r1 == FlushBuffers(Cur)
        r2 == FlushBuffers(other)
        n == qubitCount + other.n
    IN  /\ spc = "idle"
        /\ other # NoReg
        /\ orig' = [n1 |-> qubitCount,
                    a1 |-> GetAmps(r1.root, qubitCount),
                    a2 |-> GetAmps(r2.root, other.n)]
        /\ root' = ComposeTree(r1.root, qubitCount, r2.root, other.n)
        /\ qubitCount' = n
        /\ shards' = NoShards(n)
        /\ eager' = root'
        /\ other' = [r2 EXCEPT !.log = <<>>]
        /\ spc' = "composed"
        /\ out' = Unread
        /\ lastOp' = Op("Compose", qubitCount, <<>>, <<>>, r1.log, <<>>, {})
        /\ UNCHANGED <<gateCount, setCount, flushVars, parVars,
                       execVars, measVars, bigVars, allocVars, treeVars, dest>>

\* DecomposeDispose(start, length, dest) with the range that was composed;
\* dest may be absent (Dispose).
DoDecomposeDispose ==
    \E keep \in BOOLEAN :
        LET start == orig.n1
            length == qubitCount - orig.n1
        IN  /\ spc = "composed"
            /\ dest' = IF keep
                       THEN Reg(length, DecomposeDest(root, start, length), NoShards(length))
                       ELSE NoReg
            /\ root' = DecomposeRest(root, start, length)
            /\ qubitCount' = start
            /\ shards' = NoShards(start)
            /\ eager' = root'
            /\ spc' = "decomposed"
            /\ out' = Unread
            /\ lastOp' = Op("DecomposeDispose", start, <<>>, <<>>, <<>>, <<>>, {})
            /\ UNCHANGED <<gateCount, setCount, flushVars, parVars,
                           execVars, measVars, bigVars, allocVars, treeVars, other, orig>>

NextSurgery ==
    \/ SurgSetState
    \/ SurgMakeOther
    \/ SurgMtrx
    \/ SurgOtherMtrx
    \/ DoCompose
    \/ DoDecomposeDispose

SpecSurgery == Init /\ [][NextSurgery]_vars

\* ------------------------------------------- helpers on permutation indices
\* The two BigInteger types of the repository: the one with a word array
\* (common/big_integer.hpp) and the one on GMP alone.
BigImpls == {"words", "gmp"}

\* The bits an index is held in.
IndexBits == MaxQubits + 2

\* mpz_and on a non-negative left operand; a negative right operand is in
\* two's complement.
RECURSIVE BitAndN(_, _, _)
BitAndN(a, b, w) ==
    IF w = 0 THEN 0
    ELSE (a % 2) * (b % 2) + 2 * BitAndN(a \div 2, b \div 2, w - 1)

bi_and(a, b) == BitAndN(a, b % Pow2(IndexBits), IndexBits)

\* bi_compare_0: big_integer.hpp:850-858 returns 1 when a word is non-zero
\* and 0 otherwise; the GMP one returns left.is_zero() ? 1 : 0.
bi_compare_0(impl, left) ==
    IF impl = "words" THEN (IF left # 0 THEN 1 ELSE 0)
    ELSE (IF left = 0 THEN 1 ELSE 0)

\* bi_decrement(&x, 1U): the word array wraps around, GMP goes negative.
bi_decrement(impl, x) ==
    IF impl = "gmp" THEN x - 1
    ELSE (x + Pow2(IndexBits) - 1) % Pow2(IndexBits)

\* log2 of a power of two.
Log2(x) == CHOOSE k \in 0 .. IndexBits : Pow2(k) = x

\* The branch ProbParity and ForceMParity take for a mask.
ParityPath(impl, mask) ==
    IF bi_compare_0(impl, mask) = 0 THEN "zero"
    ELSE LET maskMin1 == bi_decrement(impl, mask)
         IN  IF bi_compare_0(impl, bi_and(mask, maskMin1)) = 0 THEN "single"
             ELSE "flat"

\* The loop of SampleClone over qPowers, from position i on.
RECURSIVE SampleCloneFrom(_, _, _, _)
SampleCloneFrom(impl, rawSample, qPowers, i) ==
    IF i > Len(qPowers) THEN 0
    ELSE (IF bi_compare_0(impl, bi_and(rawSample, qPowers[i])) # 0
          THEN Pow2(i - 1) ELSE 0)
         + SampleCloneFrom(impl, rawSample, qPowers, i + 1)

SampleCloneBits(impl, rawSample, qPowers) == SampleCloneFrom(impl, rawSample, qPowers, 1)

\* ------------------------------------------------ measurement and collapse
Norm2(c) == c[1] * c[1] + c[2] * c[2]

RECURSIVE SumNorm(_, _)
SumNorm(a, S) ==
    IF S = {} THEN 0
    ELSE LET i == CHOOSE j \in S : TRUE
         IN  Norm2(a[i]) + SumNorm(a, S \ {i})

\* The largest denominator of a register of MaxQubits qubits.
MaxDen == 5 ^ MaxQubits

IsSquare(x) == \E d \in 0 .. MaxDen : d * d = x

ISqrt(x) == CHOOSE d \in 0 .. MaxDen : d * d = x

\* The indices whose bit q has the value b, and those of odd parity on mask.
BitIs(n, q, b) == {i \in Perms(n) : SelectBit(i, q) = b}

RECURSIVE OnesIn(_, _)
OnesIn(x, w) == IF w = 0 THEN 0 ELSE (x % 2) + OnesIn(x \div 2, w - 1)

ParityIs(n, mask, b) == {i \in Perms(n) : OnesIn(bi_and(i, mask), IndexBits) % 2 = b}

\* Prob(qubit) as a numerator over den * den.
ProbNum(t, n, q) == SumNorm(GetAmps(t, n), BitIs(n, q, 1))

\* The denominator after a collapse that keeps the squared norm kept.
CollapseDenKeep(d, kept) == d

CollapseDen(d, kept) == ISqrt(kept)

\* The collapse onto the indices in keep: every other amplitude becomes
\* zero and the state is renormalised by the kept probability.
Collapse(r, d, keep) ==
    LET a == GetAmps(r.root, r.n)
    IN  [reg |-> [r EXCEPT !.root =
                     BuildTree(r.n, [i \in Perms(r.n) |->
                                        IF i \in keep THEN a[i] ELSE ZERO_CMPLX])],
         den |-> CollapseDen(d, SumNorm(a, keep))]

\* ForceM(qubit, result, doForce, doApply) once the outcome is known.
ForceMReg(r, d, qubit, outcome, doApply) ==
    LET r1 == FlushBuffer(r, qubit)
    IN  IF doApply THEN Collapse(r1, d, BitIs(r.n, qubit, outcome))
        ELSE [reg |-> r1, den |-> d]

\* The outcomes ForceM can return: the forced one, or any of non-zero
\* probability.
ForceMOutcomes(r, qubit, result, doForce) ==
    LET r1 == FlushBuffer(r, qubit)
        a == GetAmps(r1.root, r.n)
    IN  {b \in {0, 1} : /\ SumNorm(a, BitIs(r.n, qubit, b)) > 0
                        /\ doForce => b = result}

\* The walk of MAllOptionalCollapse from the root: at each node a branch of
\* non-zero scale is taken.
SamplePaths(t, n) ==
    {p \in [1 .. n -> {0, 1}] :
        \A k \in 1 .. n : t[SubSeq(p, 1, k)] \notin {NoNode, ZERO_CMPLX}}

RECURSIVE PathIndex(_, _)
PathIndex(p, k) ==
    IF k > Len(p) THEN 0 ELSE p[k] * Pow2(k - 1) + PathIndex(p, k + 1)

Samples(t, n) == {PathIndex(p, 1) : p \in SamplePaths(t, n)}

Basis(n, perm) == [i \in Perms(n) |-> IF i = perm THEN ONE_CMPLX ELSE ZERO_CMPLX]

MAllCollapseAlways(r, d, sample, isCollapsing) ==
    [reg |-> [r EXCEPT !.root = BuildTree(r.n, Basis(r.n, sample))], den |-> 1]

\* MAllOptionalCollapse(isCollapsing) once the permutation is sampled.
MAllReg(r, d, sample, isCollapsing) ==
    IF isCollapsing
    THEN [reg |-> [r EXCEPT !.root = BuildTree(r.n, Basis(r.n, sample))], den |-> 1]
    ELSE [reg |-> r, den |-> d]

\* The normalised states a register is prepared in, with their denominator:
\* basis states with a phase, the product of (3|0> + 4i|1>)/5 on every
\* qubit, and (3|0...0> + 4|1...1>)/5.
RECURSIVE ProductAmp(_, _)
ProductAmp(i, n) ==
    IF n = 0 THEN ONE_CMPLX
    ELSE CMul(IF i % 2 = 0 THEN <<3, 0>> ELSE <<0, 4>>, ProductAmp(i \div 2, n - 1))

NormStates(n) ==
    {[a |-> [i \in Perms(n) |-> IF i = j THEN x ELSE ZERO_CMPLX], den |-> 1] :
        j \in {0, Pow2(n) - 1}, x \in {ONE_CMPLX, I_CMPLX}}
    \cup {[a |-> [i \in Perms(n) |-> ProductAmp(i, n)], den |-> 5 ^ n]}
    \cup {[a |-> [i \in Perms(n) |-> IF i = 0 THEN <<3, 0>>
                                     ELSE IF i = Pow2(n) - 1 THEN <<4, 0>>
                                     ELSE ZERO_CMPLX], den |-> 5]}

\* The amplitudes (numerators) a traversal would read now.
TrueAmps == GetAmps(FlushBuffers(Cur).root, qubitCount)

\* The record of a measurement call that starts now.
MeasCall(name) == [NoMeas EXCEPT !.op = name, !.pre = TrueAmps, !.preDen = den]

MeasFrame == UNCHANGED <<out, setCount, flushVars, parVars,
                         execVars, bigVars, allocVars, treeVars, surgVars>>

\* A measurement call returns.
MeasDone ==
    /\ measCount' = measCount + 1
    /\ MeasFrame

MeasSetState ==
    \E st \in NormStates(qubitCount) :
        LET r == SetTraversal(Cur, st.a)
        IN  /\ setCount < MaxSets
            /\ setCount' = setCount + 1
            /\ Commit(r)
            /\ den' = st.den
            /\ eager' = BuildTree(qubitCount, st.a)
            /\ out' = Unread
            /\ mlast' = [MeasCall("SetQuantumState") EXCEPT !.pre = st.a, !.preDen = st.den]
            /\ lastOp' = Op("SetQuantumState", 0, <<>>, <<>>, r.log, st.a, {})
            /\ UNCHANGED <<qubitCount, gateCount, measCount, flushVars, parVars,
                           execVars, bigVars, allocVars, treeVars, surgVars>>

MeasMtrx ==
    \E mtrx \in UnitGates :
        \E target \in Qubits(qubitCount) :
            /\ gateCount < MaxGates
            /\ gateCount' = gateCount + 1
            /\ shards' = MtrxBuffer(shards, mtrx, target)
            /\ eager' = ApplySingle(eager, qubitCount, mtrx, target)
            /\ mlast' = MeasCall("Mtrx")
            /\ lastOp' = Op("Mtrx", target, <<>>, <<>>, <<>>, mtrx, {})
            /\ UNCHANGED <<qubitCount, root, den, measCount>>
            /\ MeasFrame

\* Prob(qubit)
DoProb ==
    \E qubit \in Qubits(qubitCount) :
        LET r == FlushBuffer(Cur, qubit)
        IN  /\ measCount < MaxMeas
            /\ Commit(r)
            /\ mlast' = [MeasCall("Prob") EXCEPT
                            !.q = qubit,
                            !.ret = ProbNum(r.root, qubitCount, qubit),
                            !.fq = IF mlast.op = "ForceM" /\ mlast.doApply
                                   THEN mlast.q ELSE NoValue,
                            !.fb = IF mlast.op = "ForceM" /\ mlast.doApply
                                   THEN mlast.ret ELSE NoValue]
            /\ lastOp' = Op("Prob", qubit, <<>>, shards, r.log, <<>>, {})
            /\ UNCHANGED <<qubitCount, eager, gateCount, den>>
            /\ MeasDone

\* ForceM(qubit, result, doForce, doApply)
DoForceM ==
    \E qubit \in Qubits(qubitCount), result \in {0, 1}, doForce \in BOOLEAN, doApply \in BOOLEAN :
        /\ measCount < MaxMeas
        /\ ~doForce => result = 0
        /\ \E outcome \in ForceMOutcomes(Cur, qubit, result, doForce) :
              LET m == ForceMReg(Cur, den, qubit, outcome, doApply)
              IN  /\ Commit(m.reg)
                  /\ den' = m.den
                  /\ eager' = FlushBuffers(m.reg).root
                  /\ mlast' = [MeasCall("ForceM") EXCEPT
                                  !.q = qubit, !.b = result, !.doForce = doForce,
                                  !.doApply = doApply, !.ret = outcome]
                  /\ lastOp' = Op("ForceM", qubit, <<>>, shards, m.reg.log, <<>>, {})
                  /\ UNCHANGED <<qubitCount, gateCount>>
                  /\ MeasDone

\* MAllOptionalCollapse(isCollapsing); MAll() is the call with true.
DoMAllOptionalCollapse ==
    \E isCollapsing \in BOOLEAN :
        /\ measCount < MaxMeas
        /\ LET r == FlushBuffers(Cur)
           IN  \E sample \in Samples(r.root, qubitCount) :
                   LET m == MAllReg(r, den, sample, isCollapsing)
                   IN  /\ Commit(m.reg)
                       /\ den' = m.den
                       /\ eager' = m.reg.root
                       /\ mlast' = [MeasCall("MAllOptionalCollapse") EXCEPT
                                       !.doApply = isCollapsing, !.ret = sample,
                                       !.raw = sample]
                       /\ lastOp' = Op("MAllOptionalCollapse", 0, <<>>, shards, r.log, <<>>, {})
                       /\ UNCHANGED <<qubitCount, gateCount>>
                       /\ MeasDone

\* The lists of powers handed to SampleClone.
PowerLists(n) ==
    {<<Pow2(q)>> : q \in Qubits(n)}
    \cup {[k \in 1 .. n |-> Pow2(n - k)]}

\* SampleClone(qPowers)
DoSampleClone ==
    \E impl \in BigImpls, qPowers \in PowerLists(qubitCount) :
        /\ measCount < MaxMeas
        /\ LET r == FlushBuffers(Cur)
           IN  \E rawSample \in Samples(r.root, qubitCount) :
                   LET m == MAllReg(r, den, rawSample, FALSE)
                   IN  /\ Commit(m.reg)
                       /\ den' = m.den
                       /\ mlast' = [MeasCall("SampleClone") EXCEPT
                                       !.impl = impl, !.powers = qPowers,
                                       !.raw = rawSample,
                                       !.ret = SampleCloneBits(impl, rawSample, qPowers)]
                       /\ lastOp' = Op("SampleClone", 0, <<>>, shards, r.log, <<>>, {})
                       /\ UNCHANGED <<qubitCount, eager, gateCount>>
                       /\ MeasDone

\* ProbParity(mask)
DoProbParity ==
    \E impl \in BigImpls, mask \in Perms(qubitCount) :
        LET path == ParityPath(impl, mask)
            r == IF path = "zero" THEN Cur
                 ELSE IF path = "single" THEN FlushBuffer(Cur, Log2(mask))
                 ELSE SetTraversal(FlushBuffers(Cur),
                                   GetAmps(FlushBuffers(Cur).root, qubitCount))
            ret == IF path = "zero" THEN 0
                   ELSE IF path = "single" THEN ProbNum(r.root, qubitCount, Log2(mask))
                   ELSE SumNorm(GetAmps(r.root, qubitCount), ParityIs(qubitCount, mask, 1))
        IN  /\ measCount < MaxMeas
            /\ Commit(r)
            /\ mlast' = [MeasCall("ProbParity") EXCEPT
                            !.impl = impl, !.mask = mask, !.path = path, !.ret = ret]
            /\ lastOp' = Op("ProbParity", 0, <<>>, shards, r.log, <<>>, {})
            /\ UNCHANGED <<qubitCount, eager, gateCount, den>>
            /\ MeasDone

\* ForceMParity(mask, result, doForce)
DoForceMParity ==
    \E impl \in BigImpls, mask \in Perms(qubitCount), result \in {0, 1}, doForce \in BOOLEAN :
        /\ measCount < MaxMeas
        /\ ~doForce => result = 0
        /\ \E outcome \in {0, 1} :
              LET path == ParityPath(impl, mask)
                  rf == FlushBuffers(Cur)
                  af == GetAmps(rf.root, qubitCount)
                  m == IF path = "zero" THEN [reg |-> Cur, den |-> den]
                       ELSE IF path = "single"
                            THEN ForceMReg(Cur, den, Log2(mask), outcome, TRUE)
                       ELSE Collapse(rf, den, ParityIs(qubitCount, mask, outcome))
              IN  /\ path = "zero" => outcome = 0
                  /\ path = "single" =>
                        outcome \in ForceMOutcomes(Cur, Log2(mask), result, doForce)
                  /\ path = "flat" =>
                        /\ SumNorm(af, ParityIs(qubitCount, mask, outcome)) > 0
                        /\ IsSquare(SumNorm(af, ParityIs(qubitCount, mask, outcome)))
                        /\ doForce => outcome = result
                  /\ Commit(m.reg)
                  /\ den' = m.den
                  /\ eager' = FlushBuffers(m.reg).root
                  /\ mlast' = [MeasCall("ForceMParity") EXCEPT
                                  !.impl = impl, !.mask = mask, !.path = path,
                                  !.b = result, !.doForce = doForce, !.ret = outcome]
                  /\ lastOp' = Op("ForceMParity", 0, <<>>, shards, m.reg.log, <<>>, {})
                  /\ UNCHANGED <<qubitCount, gateCount>>
                  /\ MeasDone

NextMeas ==
    \/ MeasSetState
    \/ MeasMtrx
    \/ DoProb
    \/ DoForceM
    \/ DoMAllOptionalCollapse
    \/ DoSampleClone

SpecMeas == Init /\ [][NextMeas]_vars

NextParity ==
    \/ MeasSetState
    \/ MeasMtrx
    \/ DoSampleClone
    \/ DoProbParity
    \/ DoForceMParity

SpecParity == Init /\ [][NextParity]_vars

\* ------------------------------------------- SetTraversal, pass by pass
\* The flat arrays written leaf by leaf: any of the amplitudes at the first
\* four indices, zero above them.
TreeArrays(n) ==
    {[i \in Perms(n) |-> IF i \in DOMAIN f THEN f[i] ELSE ZERO_CMPLX] :
        f \in [{i \in Perms(n) : i < 4} -> Amps]}

\* A Prune that drops the phase it folds into the node it is called on.
PruneDropPhase(t, n) == [Prune(t, <<>>, n) EXCEPT ![<<>>] = ONE_CMPLX]

\* root->Prune(qubitCount)
PruneRoot(t, n) == Prune(t, <<>>, n)

TreeFrame == UNCHANGED <<qubitCount, out, eager, gateCount, flushVars, parVars,
                         execVars, measVars, bigVars, allocVars, surgVars>>

\* SetTraversal up to the end of its loop: buffers dumped, new root
\* expanded to qubitCount, every leaf assigned.
TreeSetLeaves ==
    \E a \in TreeArrays(qubitCount) :
        /\ tpc \in {"idle", "pruned"}
        /\ setCount < MaxSets
        /\ setCount' = setCount + 1
        /\ shards' = NoShards(qubitCount)
        /\ root' = SetLeaves(Branch(NewRoot, <<>>, qubitCount), qubitCount, a, 0)
        /\ tpc' = "set"
        /\ tlast' = a
        /\ lastOp' = Op("SetTraversal", 0, <<>>, shards, <<>>, a, Pending(shards))
        /\ TreeFrame

\* root->PopStateVector(qubitCount)
TreePopStateVector ==
    /\ tpc = "set"
    /\ root' = PopStateVector(root, <<>>, qubitCount)
    /\ tpc' = "popped"
    /\ tlast' = GetAmps(root', qubitCount)
    /\ UNCHANGED <<shards, setCount, lastOp>>
    /\ TreeFrame

\* root->Prune(qubitCount): tlast holds what a traversal read before it.
TreePrune ==
    /\ tpc = "popped"
    /\ root' = PruneRoot(root, qubitCount)
    /\ tpc' = "pruned"
    /\ UNCHANGED <<shards, setCount, lastOp, tlast>>
    /\ TreeFrame

NextTree ==
    \/ TreeSetLeaves
    \/ TreePopStateVector
    \/ TreePrune

SpecTree == Init /\ [][NextTree]_vars

\* ------------------------------------- helpers on indices, call by call
\* mpz_ior, and | of a native integer, on non-negative operands.
RECURSIVE BitOrN(_, _, _)
BitOrN(a, b, w) ==
    IF w = 0 THEN 0
    ELSE (IF a % 2 = 1 \/ b % 2 = 1 THEN 1 ELSE 0) + 2 * BitOrN(a \div 2, b \div 2, w - 1)

\* operator~: the complement of a native integer; on the BigInteger it is
\* mpz_mul_si(result, mpz, -1L).
bi_not(impl, x) ==
    IF impl = "native" THEN Pow2(IndexBits) - 1 - x
    ELSE 0 - x

\* RemovePower(perm, power), bitCapInt being a native unsigned integer or
\* the BigInteger on GMP.
RemovePower(impl, perm, power) ==
    LET power1 == bi_decrement(impl, power)
    IN  BitOrN(bi_and(perm, power1), bi_and(perm \div 2, bi_not(impl, power1)), IndexBits)

\* bi_compare_1: big_integer.hpp:860-875 compares the words with 1; the
\* GMP one returns 0 for zero and the sign otherwise.
bi_compare_1(impl, left) ==
    IF impl = "words"
    THEN (IF left > 1 THEN 1 ELSE IF left < 1 THEN 0 - 1 ELSE 0)
    ELSE (IF left = 0 THEN 0 ELSE IF left < 0 THEN 0 - 1 ELSE 1)

BigFrame == UNCHANGED <<regVars, flushVars, parVars,
                        execVars, measVars, allocVars, treeVars, surgVars>>

CallRemovePower ==
    \E impl \in {"native", "gmp"}, perm \in Perms(IndexBits), k \in Qubits(IndexBits) :
        /\ bcall' = [NoBig EXCEPT !.fn = "RemovePower", !.impl = impl, !.x = perm,
                                  !.y = Pow2(k), !.ret = RemovePower(impl, perm, Pow2(k))]
        /\ BigFrame

CallCompare0 ==
    \E impl \in BigImpls, left \in Perms(IndexBits) :
        /\ bcall' = [NoBig EXCEPT !.fn = "bi_compare_0", !.impl = impl, !.x = left,
                                  !.ret = bi_compare_0(impl, left)]
        /\ BigFrame

CallCompare1 ==
    \E impl \in BigImpls, left \in Perms(IndexBits) :
        /\ bcall' = [NoBig EXCEPT !.fn = "bi_compare_1", !.impl = impl, !.x = left,
                                  !.ret = bi_compare_1(impl, left)]
        /\ BigFrame

NextBig ==
    \/ CallRemovePower
    \/ CallCompare0
    \/ CallCompare1

SpecBig == Init /\ [][NextBig]_vars

\* --------------------------------------- BigInteger arithmetic, call by call
\* No call has been made: a behaviour follows one call from its start.
Fresh == bcall = NoBig

\* bi_log2(n) up to its loop: pw = 0 (ret), p = n >> 1 (y).
CallLog2 ==
    \E impl \in BigImpls, n \in Perms(IndexBits) :
        /\ Fresh
        /\ bcall' = [NoBig EXCEPT !.fn = "bi_log2:loop", !.impl = impl, !.x = n,
                                  !.y = n \div 2]
        /\ BigFrame

\* One test of while (bi_compare_0(p) != 0): bi_rshift_ip(&p, 1U) and ++pw,
\* or return pw. pw is followed up to IndexBits + 1.
Log2Step ==
    /\ bcall.fn = "bi_log2:loop"
    /\ IF bi_compare_0(bcall.impl, bcall.y) # 0
       THEN /\ bcall.ret <= IndexBits
            /\ bcall' = [bcall EXCEPT !.y = bcall.y \div 2, !.ret = bcall.ret + 1]
       ELSE bcall' = [bcall EXCEPT !.fn = "bi_log2"]
    /\ BigFrame

\* operator~ and bi_not_ip (*left = ~(*left)) of either BigInteger.
CallNot ==
    \E impl \in BigImpls, fn \in {"operator~", "bi_not_ip"}, x \in Perms(IndexBits) :
        /\ Fresh
        /\ bcall' = [NoBig EXCEPT !.fn = fn, !.impl = impl, !.x = x,
                                  !.ret = bi_not(impl, x)]
        /\ BigFrame

\* operator/ and operator/= for a divisor that is not negative: mpz_fdiv_q
\* for a negative dividend, 0 when either is zero, mpz_cdiv_q otherwise.
bi_quot(a, b) ==
    IF a < 0 THEN a \div b
    ELSE IF a = 0 \/ b = 0 THEN 0
    ELSE (a + b - 1) \div b

\* operator% and operator%=: mpz_fdiv_r, 0, or mpz_cdiv_r (the remainder
\* that goes with the quotient rounded up).
bi_rem(a, b) ==
    IF a < 0 THEN a % b
    ELSE IF a = 0 \/ b = 0 THEN 0
    ELSE a - bi_quot(a, b) * b

\* a / b, a % b, a /= b, a %= b with a BigInteger or a word b: the call traps
\* when GMP is handed the divisor 0.
CallDivMod ==
    \E impl \in BigImpls, fn \in {"operator/", "operator%", "operator/=", "operator%="},
       a \in (0 - 2) .. (Pow2(IndexBits) - 1), b \in Perms(IndexBits) :
        /\ Fresh
        /\ bcall' = [NoBig EXCEPT
                        !.fn = fn, !.impl = impl, !.x = a, !.y = b,
                        !.trap = (a < 0 /\ b = 0),
                        !.ret = IF a < 0 /\ b = 0 THEN 0
                                ELSE IF fn \in {"operator/", "operator/="} THEN bi_quot(a, b)
                                ELSE bi_rem(a, b)]
        /\ BigFrame

\* bi_div_mod_small(left, right, &q, &r) and bi_div_mod(left, right, &q, &r)
\* for left >= 0 and right > 0: mpz_cdiv_qr_ui, whose return value (the
\* absolute value of the remainder) goes to *rmndr, and mpz_cdiv_qr.
CallBiDivMod ==
    \E fn \in {"bi_div_mod_small", "bi_div_mod"},
       left \in Perms(IndexBits), right \in 1 .. (Pow2(IndexBits) - 1) :
        /\ Fresh
        /\ bcall' = [NoBig EXCEPT
                        !.fn = fn, !.impl = "words", !.x = left, !.y = right,
                        !.ret = bi_quot(left, right),
                        !.rem = IF fn = "bi_div_mod_small" THEN 0 - bi_rem(left, right)
                                ELSE bi_rem(left, right)]
        /\ BigFrame

\* The member operator<< (and <<=) for x >= 0, after the last pass of its
\* loop: mpz_mul_2exp(r, mpz, sq), followed in big_integer.hpp by
\* mpz_tdiv_r_2exp(r, r, sq).
bi_lshift(impl, x, sq) ==
    IF impl = "gmp" THEN x * Pow2(sq)
    ELSE (x * Pow2(sq)) % Pow2(sq)

\* The member operator>> (and >>=) for x >= 0: mpz_tdiv_q_2exp or
\* mpz_fdiv_q_2exp of mpz by sq bits.
bi_rshift(impl, x, sq) == x \div Pow2(sq)

\* x << sq, x >> sq, x <<= sq, x >>= sq, and (x << sq) >> sq.
CallShift ==
    \E impl \in BigImpls,
       fn \in {"operator<<", "operator>>", "operator<<=", "operator>>=", "(x << s) >> s"},
       x \in Perms(IndexBits), sq \in 0 .. IndexBits :
        /\ Fresh
        /\ bcall' = [NoBig EXCEPT
                        !.fn = fn, !.impl = impl, !.x = x, !.y = sq,
                        !.ret = IF fn \in {"operator<<", "operator<<="}
                                THEN bi_lshift(impl, x, sq)
                                ELSE IF fn \in {"operator>>", "operator>>="}
                                     THEN bi_rshift(impl, x, sq)
                                ELSE bi_rshift(impl, bi_lshift(impl, x, sq), sq)]
        /\ BigFrame

NextArith ==
    \/ CallLog2
    \/ Log2Step
    \/ CallNot
    \/ CallDivMod
    \/ CallBiDivMod
    \/ CallShift

SpecArith == Init /\ [][NextArith]_vars

\* ------------------------------------------- CUDAEngine allocation accounting
\* The four accounting functions of CUDAEngine, called by the threads of
\* Workers on one engine.  A call is cut at its accesses to shared memory: the
\* entry with the range test, the read made without allocMutex, the
\* acquisition of allocMutex, and the locked update that ends with the release.
AllocFns ==
    {"GetActiveAllocSize", "AddToActiveAllocSize", "SubtractFromActiveAllocSize",
     "ResetActiveAllocSize"}

\* GetDefaultDeviceID(): the device of the default context.
DefaultDeviceID == 0

AllocFrame == UNCHANGED <<regVars, flushVars, parVars,
                          execVars, measVars, bigVars, treeVars, surgVars>>

\* Another thread is inside its locked update of counter d.
Writing(t, d) ==
    \E u \in Workers \ {t} : athr[u].pc = "write" /\ athr[u].lDev = d

\* Entry of a call: the test dev > activeAllocSizes.size(), then lDev, then the
\* branch to the read without the lock (GetActiveAllocSize, and a size of 0) or
\* to the lock.
AllocCall(t) ==
    \E fn \in AllocFns, dev \in (0 - 1) .. (NumDevices + 1), size \in 0 .. 1 :
        LET l == IF dev < 0 THEN DefaultDeviceID ELSE dev
            c == [NoThread EXCEPT !.fn = fn, !.dev = dev, !.size = size, !.lDev = l]
        IN  /\ athr[t].pc = "idle"
            /\ fn \in {"GetActiveAllocSize", "ResetActiveAllocSize"} => size = 0
            /\ athr' =
                 [athr EXCEPT ![t] =
                    IF dev > NumDevices
                    THEN [c EXCEPT !.pc = "done",
                                   !.ex = (fn # "GetActiveAllocSize")]
                    ELSE IF fn = "GetActiveAllocSize"
                            \/ (size = 0 /\ fn # "ResetActiveAllocSize")
                         THEN [c EXCEPT !.pc = "read", !.race = Writing(t, l)]
                         ELSE [c EXCEPT !.pc = "lock"]]
            /\ UNCHANGED <<activeAllocSizes, allocMutex>>
            /\ AllocFrame

\* return activeAllocSizes[lDev] without allocMutex.  A read that overlapped a
\* locked update of the same counter, or one past the end of the vector, can
\* return any value.
AllocRead(t) ==
    /\ athr[t].pc = "read"
    /\ LET l == athr[t].lDev
       IN  \E v \in 0 .. MaxAlloc :
               /\ (l < NumDevices /\ ~athr[t].race) => v = activeAllocSizes[l]
               /\ athr' = [athr EXCEPT ![t].pc = "done", ![t].ret = v,
                                       ![t].oob = (l >= NumDevices)]
    /\ UNCHANGED <<activeAllocSizes, allocMutex>>
    /\ AllocFrame

\* The value the locked update stores in a counter that holds cur.
AllocUpdate(fn, cur, size) ==
    IF fn = "AddToActiveAllocSize" THEN cur + size
    ELSE IF fn = "SubtractFromActiveAllocSize" /\ size < cur THEN cur - size
    ELSE 0

\* std::lock_guard<std::mutex> lock(allocMutex): the thread waits for the
\* mutex; its update then overlaps every read in progress without the lock.
\* Counters are capped at MaxAlloc.
AllocLock(t) ==
    /\ athr[t].pc = "lock"
    /\ allocMutex = NoHolder
    /\ athr[t].lDev < NumDevices =>
           AllocUpdate(athr[t].fn, activeAllocSizes[athr[t].lDev], athr[t].size)
               <= MaxAlloc
    /\ allocMutex' = t
    /\ athr' =
         [u \in Workers |->
            IF u = t THEN [athr[t] EXCEPT !.pc = "write"]
            ELSE IF athr[u].pc = "read" /\ athr[u].lDev = athr[t].lDev
                 THEN [athr[u] EXCEPT !.race = TRUE]
                 ELSE athr[u]]
    /\ UNCHANGED activeAllocSizes
    /\ AllocFrame

\* The locked update, the return of the new value and the release of
\* allocMutex.  An update past the end of the vector writes outside it: no
\* counter changes and the value returned is arbitrary.
AllocWrite(t) ==
    /\ athr[t].pc = "write"
    /\ allocMutex = t
    /\ LET l == athr[t].lDev
       IN  IF l < NumDevices
           THEN LET v == AllocUpdate(athr[t].fn, activeAllocSizes[l], athr[t].size)
                IN  /\ activeAllocSizes' = [activeAllocSizes EXCEPT ![l] = v]
                    /\ athr' = [athr EXCEPT ![t].pc = "done", ![t].ret = v]
           ELSE \E v \in 0 .. MaxAlloc :
                    /\ activeAllocSizes' = activeAllocSizes
                    /\ athr' = [athr EXCEPT ![t].pc = "done", ![t].ret = v,
                                            ![t].oob = TRUE]
    /\ allocMutex' = NoHolder
    /\ AllocFrame

\* The caller has the result (or the exception) and is free to call again.
AllocReturn(t) ==
    /\ athr[t].pc = "done"
    /\ athr' = [athr EXCEPT ![t] = NoThread]
    /\ UNCHANGED <<activeAllocSizes, allocMutex>>
    /\ AllocFrame

NextAlloc ==
    \E t \in Workers :
        \/ AllocCall(t)
        \/ AllocRead(t)
        \/ AllocLock(t)
        \/ AllocWrite(t)
        \/ AllocReturn(t)

SpecAlloc == Init /\ [][NextAlloc]_vars

\* --------------------------------------------- traversals with workers
SetDescendFirstBit(t, n, i) ==
    [leaf |-> [j \in 1 .. n |-> SelectBit(i, 0)],
     null |-> \E k \in 1 .. n : t[[j \in 1 .. k |-> SelectBit(i, 0)]] = NoNode]

\* The descent of SetTraversal for index i: the leaf it reaches, and whether
\* it went through a null branch on the way.
SetDescend(t, n, i) ==
    [leaf |-> [j \in 1 .. n |-> SelectBit(i, j - 1)],
     null |-> \E k \in 1 .. n : t[[j \in 1 .. k |-> SelectBit(i, j - 1)]] = NoNode]

SetTraversalExpandShort(t, n) == Branch(t, <<>>, n - 1)

\* root->Branch(qubitCount), under the lock of the root.
SetTraversalExpand(t, n) == Branch(t, <<>>, n)

SomeWorkerDone == \E w \in Workers : wst[w] = "done"

\* _par_for returns when every worker has returned.
AllWorkersDone == \A w \in Workers : wst[w] = "done"

StartWorkers(first) ==
    /\ idx' = 0
    /\ wst' = [w \in Workers |-> first]
    /\ widx' = [w \in Workers |-> 0]
    /\ wval' = [w \in Workers |-> ZERO_CMPLX]
    /\ wleaf' = [w \in Workers |-> <<>>]
    /\ wnull' = [w \in Workers |-> FALSE]

ParMtrx ==
    /\ pc = "idle"
    /\ MtrxCall
    /\ UNCHANGED <<flushVars, extVars, parVars>>

\* GetTraversal: FlushBuffers(), then _par_for starts the workers.
GetTraversalBegin ==
    LET r == GetTraversalFlush(Cur)
    IN  /\ pc = "idle"
        /\ Commit(r)
        /\ pc' = "get_par"
        /\ StartWorkers("ready")
        /\ flat' = [i \in Perms(qubitCount) |-> Unread]
        /\ cnt' = [i \in Perms(qubitCount) |-> 0]
        /\ out' = Unread
        /\ UNCHANGED <<qubitCount, eager, gateCount, setCount, lastOp, flushVars, extVars,
                       mtx, enode, allocs>>

\* SetTraversal: DumpBuffers(), a new root, and the lock of the root taken.
SetTraversalBegin ==
    \E a \in StateArraysOf[qubitCount] :
        /\ pc = "idle"
        /\ setCount < MaxSets
        /\ setCount' = setCount + 1
        /\ shards' = DumpBuffers(Cur).shards
        /\ root' = NewRoot
        /\ allocs' = [p \in AllPaths |-> IF p = <<>> THEN 1 ELSE 0]
        /\ mtx' = Caller
        /\ pc' = "set_branch"
        /\ flat' = a
        /\ cnt' = [i \in Perms(qubitCount) |-> 0]
        /\ eager' = BuildTree(qubitCount, a)
        /\ out' = Unread
        /\ UNCHANGED <<qubitCount, gateCount, lastOp, flushVars, extVars,
                       idx, wst, widx, wval, wleaf, wnull, enode>>

\* SetTraversal: root->Branch(qubitCount), the lock released, and _par_for
\* starts the workers.
SetTraversalBranch ==
    /\ pc = "set_branch"
    /\ root' = SetTraversalExpand(root, qubitCount)
    /\ allocs' = [p \in AllPaths |->
                    IF root[p] = NoNode /\ root'[p] # NoNode
                    THEN allocs[p] + 1 ELSE allocs[p]]
    /\ mtx' = NoHolder
    /\ pc' = "set_par"
    /\ StartWorkers("ready")
    /\ UNCHANGED <<qubitCount, shards, out, eager, gateCount, setCount, lastOp,
                   flushVars, extVars, flat, cnt, enode>>

\* A worker takes the next index from the shared counter and makes the
\* descent of its lambda for it; when no index is left it returns.
WorkerClaim ==
    \E w \in Workers :
        /\ pc \in {"get_par", "set_par"}
        /\ wst[w] = "ready"
        /\ IF idx >= Pow2(qubitCount)
           THEN /\ wst' = [wst EXCEPT ![w] = "done"]
                /\ UNCHANGED <<idx, widx, wval, wleaf, wnull>>
           ELSE /\ idx' = idx + 1
                /\ widx' = [widx EXCEPT ![w] = idx]
                /\ wst' = [wst EXCEPT ![w] = "deliver"]
                /\ IF pc = "get_par"
                   THEN /\ wval' = [wval EXCEPT ![w] = GetAmp(root, qubitCount, idx)]
                        /\ UNCHANGED <<wleaf, wnull>>
                   ELSE LET d == SetDescend(root, qubitCount, idx)
                        IN  /\ wleaf' = [wleaf EXCEPT ![w] = d.leaf]
                            /\ wnull' = [wnull EXCEPT ![w] = d.null]
                            /\ UNCHANGED wval
        /\ UNCHANGED <<regVars, flushVars, extVars, pc, flat, cnt, mtx, enode, allocs>>

\* The worker calls the lambda: state[i] = scale, or leaf->scale = state[i].
\* A descent through a null branch ends the worker instead.
WorkerDeliver ==
    \E w \in Workers :
        /\ pc \in {"get_par", "set_par"}
        /\ wst[w] = "deliver"
        /\ IF pc = "get_par"
           THEN /\ flat' = [flat EXCEPT ![widx[w]] = wval[w]]
                /\ cnt' = [cnt EXCEPT ![widx[w]] = @ + 1]
                /\ wst' = [wst EXCEPT ![w] = "ready"]
                /\ UNCHANGED root
           ELSE IF wnull[w]
           THEN /\ wst' = [wst EXCEPT ![w] = "crashed"]
                /\ UNCHANGED <<root, flat, cnt>>
           ELSE /\ root' = [root EXCEPT ![wleaf[w]] = flat[widx[w]]]
                /\ cnt' = [cnt EXCEPT ![widx[w]] = @ + 1]
                /\ wst' = [wst EXCEPT ![w] = "ready"]
                /\ UNCHANGED flat
        /\ widx' = [widx EXCEPT ![w] = 0]
        /\ wval' = [wval EXCEPT ![w] = ZERO_CMPLX]
        /\ wleaf' = [wleaf EXCEPT ![w] = <<>>]
        /\ UNCHANGED <<qubitCount, shards, out, eager, gateCount, setCount, lastOp,
                       flushVars, extVars, pc, idx, wnull, mtx, enode, allocs>>

\* _par_for returns: GetTraversal returns to its caller, SetTraversal goes
\* on to PopStateVector and Prune, a parallel expansion is over.
ParJoin ==
    /\ pc \in {"get_par", "set_par", "expand"}
    /\ AllWorkersDone
    /\ pc' = IF pc = "set_par" THEN "set_pop" ELSE "idle"
    /\ out' = IF pc = "get_par" THEN flat ELSE out
    /\ idx' = 0
    /\ UNCHANGED <<qubitCount, root, shards, eager, gateCount, setCount, lastOp,
                   flushVars, extVars, wst, widx, wval, wleaf, wnull, flat, cnt,
                   mtx, enode, allocs>>

\* SetTraversal: root->PopStateVector(qubitCount); root->Prune(qubitCount).
SetTraversalPop ==
    /\ pc = "set_pop"
    /\ root' = Prune(PopStateVector(root, <<>>, qubitCount), <<>>, qubitCount)
    /\ pc' = "idle"
    /\ UNCHANGED <<qubitCount, shards, out, eager, gateCount, setCount, lastOp,
                   flushVars, extVars, idx, wst, widx, wval, wleaf, wnull, flat, cnt,
                   mtx, enode, allocs>>

\* Several threads need the children of the same unexpanded node.
ExpandBegin ==
    \E p \in AllPaths :
        /\ pc = "idle"
        /\ Len(p) < qubitCount
        /\ root[p] # NoNode
        /\ root[Append(p, 0)] = NoNode
        /\ enode' = p
        /\ pc' = "expand"
        /\ StartWorkers("lock")
        /\ allocs' = [q \in AllPaths |-> IF root[q] # NoNode THEN 1 ELSE 0]
        /\ out' = Unread
        /\ flat' = <<>>
        /\ cnt' = <<>>
        /\ UNCHANGED <<qubitCount, root, shards, eager, gateCount, setCount, lastOp,
                       flushVars, extVars, mtx>>

\* The mutex of a node is free.
Free(holder) == holder = NoHolder

\* Branch on the node: take its lock ...
ExpandLock ==
    \E w \in Workers :
        /\ pc = "expand"
        /\ wst[w] = "lock"
        /\ Free(mtx)
        /\ mtx' = w
        /\ wst' = [wst EXCEPT ![w] = "check"]
        /\ UNCHANGED <<regVars, flushVars, extVars, pc, idx, widx, wval, wleaf, wnull,
                       flat, cnt, enode, allocs>>

\* ... allocate the first child unless the children are already there ...
ExpandAlloc0 ==
    \E w \in Workers :
        /\ pc = "expand"
        /\ wst[w] = "check"
        /\ IF root[Append(enode, 0)] = NoNode
           THEN /\ root' = [root EXCEPT ![Append(enode, 0)] = ONE_CMPLX]
                /\ allocs' = [allocs EXCEPT ![Append(enode, 0)] = @ + 1]
                /\ wst' = [wst EXCEPT ![w] = "alloc1"]
           ELSE /\ wst' = [wst EXCEPT ![w] = "unlock"]
                /\ UNCHANGED <<root, allocs>>
        /\ UNCHANGED <<qubitCount, shards, out, eager, gateCount, setCount, lastOp,
                       flushVars, extVars, pc, idx, widx, wval, wleaf, wnull, flat, cnt,
                       mtx, enode>>

\* ... then the second child ...
ExpandAlloc1 ==
    \E w \in Workers :
        /\ pc = "expand"
        /\ wst[w] = "alloc1"
        /\ root' = [root EXCEPT ![Append(enode, 1)] = ONE_CMPLX]
        /\ allocs' = [allocs EXCEPT ![Append(enode, 1)] = @ + 1]
        /\ wst' = [wst EXCEPT ![w] = "unlock"]
        /\ UNCHANGED <<qubitCount, shards, out, eager, gateCount, setCount, lastOp,
                       flushVars, extVars, pc, idx, widx, wval, wleaf, wnull, flat, cnt,
                       mtx, enode>>

\* ... release the lock ...
ExpandUnlock ==
    \E w \in Workers :
        /\ pc = "expand"
        /\ wst[w] = "unlock"
        /\ mtx' = NoHolder
        /\ wst' = [wst EXCEPT ![w] = "observe"]
        /\ UNCHANGED <<regVars, flushVars, extVars, pc, idx, widx, wval, wleaf, wnull,
                       flat, cnt, enode, allocs>>

\* ... and use the children.
ExpandObserve ==
    \E w \in Workers :
        /\ pc = "expand"
        /\ wst[w] = "observe"
        /\ wnull' = [wnull EXCEPT ![w] = root[Append(enode, 0)] = NoNode
                                          \/ root[Append(enode, 1)] = NoNode]
        /\ wst' = [wst EXCEPT ![w] = "done"]
        /\ UNCHANGED <<regVars, flushVars, extVars, pc, idx, widx, wval, wleaf,
                       flat, cnt, mtx, enode, allocs>>

NextPar ==
    \/ ParMtrx
    \/ GetTraversalBegin
    \/ SetTraversalBegin
    \/ SetTraversalBranch
    \/ WorkerClaim
    \/ WorkerDeliver
    \/ ParJoin
    \/ SetTraversalPop
    \/ ExpandBegin
    \/ ExpandLock
    \/ ExpandAlloc0
    \/ ExpandAlloc1
    \/ ExpandUnlock
    \/ ExpandObserve

SpecPar == Init /\ [][NextPar]_vars

\* ----------------------------------------------------------------- claims
InLog(q, m) == \E k \in 1 .. Len(lastOp.log) : lastOp.log[k] = <<q, m>>

LogQubits == {lastOp.log[k][1] : k \in 1 .. Len(lastOp.log)}

\* C1: a GetQuantumState that directly follows SetQuantumState(a) delivers
\* exactly a[i] for every index i, whatever buffers were pending before the
\* SetQuantumState.
C1_RoundTrip ==
    (lastOp.op = "GetQuantumState" /\ lastOp.arr # <<>>) => out = lastOp.arr

C1_Witness ==
    /\ lastOp.op = "GetQuantumState"
    /\ lastOp.arr # <<>>
    /\ lastOp.dumped # {}
    /\ out = lastOp.arr
    /\ \E i, j \in Perms(qubitCount) :
          /\ out[i] # ZERO_CMPLX
          /\ out[j] # ZERO_CMPLX
          /\ out[i] # out[j]

\* C2: the amplitudes a read delivers from the lazily buffered register
\* (all pending buffers flushed, then read) are those of the register in
\* which every gate was committed to the tree as soon as it was applied.
C2_LazyEqualsEager ==
    GetAmps(FlushBuffers(Cur).root, qubitCount) = GetAmps(eager, qubitCount)

C2_Witness ==
    /\ gateCount = 2
    /\ \E q \in Qubits(qubitCount) :
          \E a \in Gates, b \in Gates :
              /\ shards[q] = Mul2x2(b, a)
              /\ Mul2x2(b, a) # Mul2x2(a, b)
    /\ C2_LazyEqualsEager

\* C4: after FlushIfBlocked(target, controls) the target has no pending
\* buffer, and the matrix it held, diagonal or not, has been committed by
\* exactly one ApplySingle(matrix, target).
C4_TargetAlwaysFlushed ==
    lastOp.op = "FlushIfBlocked" =>
        /\ shards[lastOp.t] = NoShard
        /\ lastOp.pre[lastOp.t] # NoShard =>
              Cardinality({k \in 1 .. Len(lastOp.log) :
                              lastOp.log[k] = <<lastOp.t, lastOp.pre[lastOp.t]>>}) = 1

C4_Witness ==
    /\ lastOp.op = "FlushIfBlocked"
    /\ lastOp.pre[lastOp.t] # NoShard
    /\ IsPhase(lastOp.pre[lastOp.t])
    /\ shards[lastOp.t] = NoShard
    /\ InLog(lastOp.t, lastOp.pre[lastOp.t])

\* The rule for one qubit q that is flushed unless its buffer is diagonal.
ControlRule(q) ==
    /\ (lastOp.pre[q] # NoShard /\ ~IsPhase(lastOp.pre[q])) =>
          (shards[q] = NoShard /\ InLog(q, lastOp.pre[q]))
    /\ (lastOp.pre[q] # NoShard /\ IsPhase(lastOp.pre[q])) =>
          (shards[q] = lastOp.pre[q] /\ q \notin LogQubits)
    /\ lastOp.pre[q] = NoShard => (shards[q] = NoShard /\ q \notin LogQubits)
    /\ (shards[q] = NoShard \/ IsPhase(shards[q]))

\* C5: FlushIfBlocked(controls) commits and clears every pending
\* non-diagonal buffer of a control and keeps every pending diagonal buffer
\* pending and unchanged; FlushNonPhaseBuffers does so for all qubits.
C5_ControlsKeepPhase ==
    /\ lastOp.op = "FlushIfBlockedControls" =>
          \A k \in 1 .. Len(lastOp.cs) : ControlRule(lastOp.cs[k])
    /\ lastOp.op = "FlushNonPhaseBuffers" =>
          \A q \in Qubits(qubitCount) : ControlRule(q)

C5_Witness ==
    /\ lastOp.op = "FlushIfBlockedControls"
    /\ \E k1, k2 \in 1 .. Len(lastOp.cs) :
          /\ lastOp.pre[lastOp.cs[k1]] # NoShard
          /\ IsPhase(lastOp.pre[lastOp.cs[k1]])
          /\ shards[lastOp.cs[k1]] = lastOp.pre[lastOp.cs[k1]]
          /\ lastOp.pre[lastOp.cs[k2]] # NoShard
          /\ ~IsPhase(lastOp.pre[lastOp.cs[k2]])
          /\ shards[lastOp.cs[k2]] = NoShard

\* C6 as stated: GetTraversal and SetTraversal both commit each pending
\* buffer through ApplySingle, and leave no buffer pending.
C6_Original ==
    lastOp.op \in {"GetQuantumState", "SetQuantumState"} =>
        /\ \A q \in Qubits(qubitCount) : shards[q] = NoShard
        /\ LogQubits = lastOp.pend

\* C6 amended: GetTraversal commits each pending buffer through ApplySingle
\* before it reads; SetTraversal discards each pending buffer without
\* committing it; after either, no qubit has a pending buffer.
C6_FlushOrDump ==
    /\ lastOp.op = "GetQuantumState" =>
          /\ \A q \in Qubits(qubitCount) : shards[q] = NoShard
          /\ LogQubits = lastOp.pend
          /\ Len(lastOp.log) = Cardinality(lastOp.pend)
          /\ \A q \in lastOp.pend : InLog(q, lastOp.pre[q])
          /\ out = GetAmps(eager, qubitCount)
    /\ lastOp.op = "SetQuantumState" =>
          /\ \A q \in Qubits(qubitCount) : shards[q] = NoShard
          /\ lastOp.log = <<>>

C6_Witness ==
    /\ lastOp.op = "SetQuantumState"
    /\ lastOp.pend # {}
    /\ lastOp.log = <<>>
    /\ \A q \in Qubits(qubitCount) : shards[q] = NoShard

\* C7 as stated: FlushBuffer clears the slot only after ApplySingle has
\* completed, so the slot is never empty while the matrix is not yet in the
\* tree, and a failure of ApplySingle leaves the gate pending.
C7_Original ==
    /\ fpc = "apply" => shards[ft] = fshard
    /\ fres = "thrown" => shards[ft] = fshard

\* The branch choices of index i read off its binary expansion, lowest bit
\* first, and the product of the scales met along a path of the tree, the
\* root's included, up to the first null branch.
RECURSIVE BitsOf(_, _)
BitsOf(i, n) == IF n = 0 THEN <<>> ELSE <<i % 2>> \o BitsOf(i \div 2, n - 1)

RECURSIVE ScaleProduct(_, _, _)
ScaleProduct(t, path, k) ==
    IF k > Len(path) THEN ONE_CMPLX
    ELSE IF t[SubSeq(path, 1, k)] = NoNode THEN ONE_CMPLX
    ELSE CMul(t[SubSeq(path, 1, k)], ScaleProduct(t, path, k + 1))

Amplitude(i) == ScaleProduct(root, BitsOf(i, qubitCount), 0)

Holders(i) == {w \in Workers : wst[w] = "deliver" /\ widx[w] = i}

\* C3: GetTraversal delivers (i, amplitude) to the sink exactly once for
\* every index i in [0, 2^n), the amplitude being the product of the root
\* scale and the scales of the nodes reached by descending along the bits
\* of i; each bit selected is 0 or 1.
C3_GetTraversalDelivers ==
    /\ pc = "get_par" =>
          \A i \in Perms(qubitCount) :
              /\ cnt[i] + Cardinality(Holders(i)) <= 1
              /\ cnt[i] = 1 => flat[i] = Amplitude(i)
              /\ \A w \in Holders(i) : wval[w] = Amplitude(i)
              /\ \A j \in Qubits(qubitCount) : SelectBit(i, j) \in {0, 1}
    /\ (pc = "idle" /\ out # Unread) =>
          \A i \in Perms(qubitCount) : cnt[i] = 1 /\ out[i] = Amplitude(i)

C3_Witness ==
    /\ pc = "idle"
    /\ out # Unread
    /\ root[<<>>] \notin {ZERO_CMPLX, ONE_CMPLX}
    /\ \E i \in Perms(qubitCount) : root[BitsOf(i, qubitCount)] = NoNode
    /\ \E i \in Perms(qubitCount) : out[i] # ZERO_CMPLX /\ out[i] = Amplitude(i)
    /\ \A i \in Perms(qubitCount) : cnt[i] = 1

\* C8: under every interleaving no two workers write the same destination:
\* an index is held by one worker only and goes to output slot i (read
\* direction) or to a leaf no other index reaches (write direction), so the
\* result is that of the sequential loop.
C8_DisjointDestinations ==
    /\ pc \in {"get_par", "set_par"} =>
          /\ \A i \in Perms(qubitCount) : cnt[i] + Cardinality(Holders(i)) <= 1
          /\ \A w1, w2 \in Workers :
                (w1 # w2 /\ wst[w1] = "deliver" /\ wst[w2] = "deliver") =>
                    /\ widx[w1] # widx[w2]
                    /\ pc = "set_par" => wleaf[w1] # wleaf[w2]
    /\ pc = "set_pop" =>
          root = SetLeaves(Branch(NewRoot, <<>>, qubitCount), qubitCount, flat, 0)
    /\ (pc = "idle" /\ out # Unread) =>
          out = [i \in Perms(qubitCount) |-> Amplitude(i)]

C8_Witness ==
    /\ pc = "set_par"
    /\ \E w1, w2 \in Workers :
          /\ wst[w1] = "deliver"
          /\ wst[w2] = "deliver"
          /\ widx[w1] > widx[w2] + 1
          /\ wleaf[w1] # wleaf[w2]

\* C9: PopStateVector and Prune start only after all 2^n leaf assignments
\* have completed, and a traversal returns to its caller only after every
\* worker has completed.
C9_JoinedBeforeContinuing ==
    /\ pc = "set_pop" =>
          /\ \A w \in Workers : wst[w] = "done"
          /\ \A i \in Perms(qubitCount) : cnt[i] = 1
    /\ pc = "idle" =>
          /\ \A w \in Workers : wst[w] \in {"idle", "done"}
          /\ \A i \in DOMAIN cnt : cnt[i] = 1

C9_Witness ==
    /\ pc = "set_pop"
    /\ qubitCount = MaxQubits
    /\ \A i \in Perms(qubitCount) : cnt[i] = 1
    /\ \A w \in Workers : wst[w] = "done"

\* C10: the children of a node are allocated by one thread only and every
\* other thread that needs them finds them complete; SetTraversal expands
\* the new root to depth qubitCount while it holds the root's lock and
\* before any worker starts, so no descent of a worker meets a null branch.
C10_ExpansionRaceFree ==
    /\ \A p \in AllPaths : allocs[p] <= 1
    /\ pc = "expand" =>
          /\ Cardinality({w \in Workers : wst[w] \in {"check", "alloc1", "unlock"}}) <= 1
          /\ \A w \in Workers : wst[w] = "done" => ~wnull[w]
    /\ pc = "set_branch" =>
          /\ mtx = Caller
          /\ \A w \in Workers : wst[w] \in {"idle", "done"}
    /\ pc = "set_par" =>
          /\ mtx = NoHolder
          /\ \A p \in AllPaths : Len(p) <= qubitCount => root[p] # NoNode
          /\ \A w \in Workers : ~wnull[w] /\ wst[w] # "crashed"

C10_Witness ==
    /\ pc = "set_par"
    /\ qubitCount = MaxQubits
    /\ \E w \in Workers :
          /\ wst[w] = "deliver"
          /\ Len(wleaf[w]) = qubitCount
          /\ root[wleaf[w]] # NoNode
          /\ ~wnull[w]

\* C11: a delegated operation runs flush, copy to a fresh flat engine,
\* operation on the engine, rebuild, in this order: the engine receives the
\* amplitudes with every pending gate committed, the operation acts on the
\* engine only, and on return the register's amplitudes are the engine's,
\* no shard buffer is pending and the value of the operation is returned.
C11_DelegationRoundTrip ==
    /\ epc = "operate" =>
          /\ \A q \in Qubits(qubitCount) : shards[q] = NoShard
          /\ eng = GetAmps(root, qubitCount)
          /\ eng = GetAmps(eager, qubitCount)
    /\ epc = "set" =>
          /\ \A q \in Qubits(qubitCount) : shards[q] = NoShard
          /\ eng = EngineOp(ecall, qubitCount, GetAmps(root, qubitCount))
          /\ eret = EngineRet(ecall)
    /\ lastOp.op = "ExecuteSet" =>
          /\ epc = "idle"
          /\ \A q \in Qubits(qubitCount) : shards[q] = NoShard
          /\ GetAmps(root, qubitCount) = eng
          /\ GetAmps(eager, qubitCount) = eng
          /\ eout = EngineRet(ecall)

C11_Witness ==
    /\ lastOp.op = "ExecuteSet"
    /\ ecall.op = "IndexedLDA"
    /\ eout = ecall.perm
    /\ ecall.perm > 0
    /\ gateCount > 0
    /\ GetAmps(root, qubitCount) = eng
    /\ eng # EngineOp(ecall, qubitCount, eng)

\* C12: Compose(R2 onto R1 at start n1) yields the product amplitudes, and
\* DecomposeDispose(n1, n2, dest) after it leaves this register with the
\* amplitudes R1 had, the destination with the amplitudes R2 had, and the
\* qubit count n1.
C12_ComposeDecomposeInverse ==
    /\ spc = "composed" =>
          /\ qubitCount = orig.n1 + other.n
          /\ \A i \in Perms(orig.n1), j \in Perms(other.n) :
                GetAmp(root, qubitCount, i + j * Pow2(orig.n1)) = CMul(orig.a1[i], orig.a2[j])
    /\ spc = "decomposed" =>
          /\ qubitCount = orig.n1
          /\ GetAmps(root, qubitCount) = orig.a1
          /\ dest # NoReg =>
                /\ dest.n = other.n
                /\ GetAmps(dest.root, dest.n) = orig.a2

C12_Witness ==
    /\ spc = "decomposed"
    /\ dest # NoReg
    /\ GetAmps(dest.root, dest.n) = orig.a2
    /\ GetAmps(root, qubitCount) = orig.a1
    /\ \A j \in Perms(dest.n) : orig.a2[j] \notin {ZERO_CMPLX, ONE_CMPLX}
    /\ \E i, k \in Perms(qubitCount) :
          /\ orig.a1[i] # ZERO_CMPLX
          /\ orig.a1[k] # ZERO_CMPLX
          /\ orig.a1[i] # orig.a1[k]


\* ----------------------------------------------------------------- C13
\* The squared norm of the amplitudes now read by a traversal, over den * den.
NowProbNum(q) == ProbNum(FlushBuffers(Cur).root, qubitCount, q)

NowTotalNum == SumNorm(TrueAmps, Perms(qubitCount))

\* C13: after ForceM(qubit, b, doForce = true, doApply = true) on an outcome
\* b of non-zero probability the call returns b, Prob(qubit) is 1 when b is
\* true and 0 when b is false (the complementary outcome has probability
\* 0), and the total probability of the collapsed state is 1; a Prob(qubit)
\* called right after the ForceM returns that value.
C13_CollapseProbability ==
    /\ (mlast.op = "ForceM" /\ mlast.doForce /\ mlast.doApply) =>
          /\ mlast.ret = mlast.b
          /\ SumNorm(mlast.pre, BitIs(qubitCount, mlast.q, mlast.b)) > 0
          /\ NowProbNum(mlast.q) = (IF mlast.b = 1 THEN den * den ELSE 0)
          /\ NowTotalNum = den * den
    /\ (mlast.op = "Prob" /\ mlast.fq = mlast.q) =>
          mlast.ret = (IF mlast.fb = 1 THEN den * den ELSE 0)

\* A forced, applied ForceM on a qubit both of whose outcomes had non-zero
\* probability.
C13_Witness ==
    /\ mlast.op = "ForceM"
    /\ mlast.doForce
    /\ mlast.doApply
    /\ mlast.b = 0
    /\ mlast.preDen > 1
    /\ SumNorm(mlast.pre, BitIs(qubitCount, mlast.q, 0)) > 0
    /\ SumNorm(mlast.pre, BitIs(qubitCount, mlast.q, 1)) > 0
    /\ qubitCount = MaxQubits

\* ----------------------------------------------------------------- C14
\* C14: MAllOptionalCollapse(false), and SampleClone which calls it, samples
\* a permutation of non-zero amplitude and leaves the state alone: a
\* traversal reads the same amplitude at every index before and after the
\* call; MAllOptionalCollapse(true), which is MAll, leaves the register in
\* the basis state of the permutation it returns.
C14_SampleLeavesTree ==
    /\ (\/ mlast.op = "SampleClone"
        \/ (mlast.op = "MAllOptionalCollapse" /\ ~mlast.doApply)) =>
          /\ TrueAmps = mlast.pre
          /\ den = mlast.preDen
          /\ mlast.pre[mlast.raw] # ZERO_CMPLX
    /\ (mlast.op = "MAllOptionalCollapse" /\ mlast.doApply) =>
          /\ mlast.pre[mlast.ret] # ZERO_CMPLX
          /\ \A i \in Perms(qubitCount) : i # mlast.ret => TrueAmps[i] = ZERO_CMPLX
          /\ Norm2(TrueAmps[mlast.ret]) = den * den

\* A sample taken without collapse from a superposition, at an index other
\* than 0.
C14_Witness ==
    /\ mlast.op = "MAllOptionalCollapse"
    /\ ~mlast.doApply
    /\ mlast.raw > 0
    /\ mlast.preDen > 1
    /\ \E i \in Perms(qubitCount) : i # mlast.raw /\ mlast.pre[i] # ZERO_CMPLX
    /\ TrueAmps = mlast.pre

\* ----------------------------------------------------------------- C17
\* The number of bits set in a mask.
BitsSet(mask) == OnesIn(mask, IndexBits)

\* C17 as stated: with bitCapInt a BigInteger, ProbParity and ForceMParity
\* return 0 (false) for the empty mask and leave the state alone, return
\* Prob(k) and ForceM(k, result, doForce) for the mask with the one bit k,
\* and go to the flat engine only for a mask of two or more bits.
C17_Original ==
    mlast.op \in {"ProbParity", "ForceMParity"} =>
        /\ BitsSet(mlast.mask) = 0 =>
              /\ mlast.path = "zero"
              /\ mlast.ret = 0
              /\ TrueAmps = mlast.pre
              /\ den = mlast.preDen
        /\ BitsSet(mlast.mask) = 1 =>
              /\ mlast.path = "single"
              /\ mlast.op = "ProbParity" =>
                    mlast.ret = SumNorm(mlast.pre,
                                        BitIs(qubitCount, Log2(mlast.mask), 1))
              /\ (mlast.op = "ForceMParity" /\ mlast.doForce) => mlast.ret = mlast.b
        /\ BitsSet(mlast.mask) > 1 => mlast.path = "flat"

\* ----------------------------------------------------------------- C18
\* The value with bit i set exactly when rawSample has the bit qPowers[i].
RECURSIVE SelectedBits(_, _, _)
SelectedBits(rawSample, qPowers, i) ==
    IF i > Len(qPowers) THEN 0
    ELSE (IF bi_and(rawSample, qPowers[i]) # 0 THEN Pow2(i - 1) ELSE 0)
         + SelectedBits(rawSample, qPowers, i + 1)

\* C18 as stated: with bitCapInt a BigInteger, SampleClone(qPowers) returns
\* the value whose bit i is set exactly when the raw sample has the bit
\* qPowers[i], every other bit clear.
C18_Original ==
    mlast.op = "SampleClone" =>
        mlast.ret = SelectedBits(mlast.raw, mlast.powers, 1)


\* ----------------------------------------------------------------- C15
\* The tree SetTraversal hands to Prune for the array of the last call.
BeforePrune ==
    PopStateVector(SetLeaves(Branch(NewRoot, <<>>, qubitCount), qubitCount, lastOp.arr, 0),
                   <<>>, qubitCount)

\* C15: Prune changes the structure of the tree only: at every index a
\* traversal reads after Prune the amplitude it read before it, and after
\* the Prune that ends SetTraversal this is the amplitude that was set.
C15_PruneKeepsAmplitudes ==
    tpc = "pruned" =>
        \A i \in Perms(qubitCount) :
            /\ GetAmp(root, qubitCount, i) = tlast[i]
            /\ GetAmp(root, qubitCount, i) = lastOp.arr[i]

\* A Prune that changed the tree: a phase was folded into a parent.
C15_Witness ==
    /\ tpc = "pruned"
    /\ qubitCount = MaxQubits
    /\ root # BeforePrune
    /\ root[<<>>] = I_CMPLX
    /\ \E i \in Perms(qubitCount) : lastOp.arr[i] = ONE_CMPLX


\* ----------------------------------------------------------------- C16
\* The nodes of a tree above the terminal depth that have no children.
Childless(t, n) ==
    {p \in AllPaths : Len(p) < n /\ t[p] # NoNode /\ t[Append(p, 0)] = NoNode}

\* The descent of GetTraversal for index i meets a null child.
StopsEarly(t, n, i) ==
    \E j \in 1 .. n : t[SubSeq(LeafPath(i, n), 1, j)] = NoNode

\* C16: in the tree of the register a node above the terminal depth that
\* has no children has zero scale, so the descent of GetTraversal delivers
\* zero for every index at which it stops early at a null child; this is
\* what GetQuantumState has written at such an index.
C16_NullChildMeansZero ==
    /\ \A p \in Childless(root, qubitCount) : root[p] = ZERO_CMPLX
    /\ \A i \in Perms(qubitCount) :
          StopsEarly(root, qubitCount, i) =>
              /\ GetAmp(root, qubitCount, i) = ZERO_CMPLX
              /\ (lastOp.op = "GetQuantumState" /\ out # Unread) => out[i] = ZERO_CMPLX

\* GetQuantumState has read a tree in which one index stops early above
\* the terminal depth and another index has a non-zero amplitude.
C16_Witness ==
    /\ lastOp.op = "GetQuantumState"
    /\ out # Unread
    /\ qubitCount = MaxQubits
    /\ gateCount > 0
    /\ \E p \in Childless(root, qubitCount) : Len(p) > 0
    /\ \E i \in Perms(qubitCount) : StopsEarly(root, qubitCount, i) /\ out[i] = ZERO_CMPLX
    /\ \E i \in Perms(qubitCount) : out[i] # ZERO_CMPLX


\* ----------------------------------------------------------------- C19
\* perm with bit k deleted: the k bits below k stay, every bit above k
\* moves down by one position.
DeleteBit(perm, k) == (perm % Pow2(k)) + (perm \div Pow2(k + 1)) * Pow2(k)

\* C19 as stated: for power = 2^k, RemovePower(perm, power) is perm with bit
\* k deleted, for a native bitCapInt and for the BigInteger alike.
C19_Original ==
    bcall.fn = "RemovePower" => bcall.ret = DeleteBit(bcall.x, Log2(bcall.y))

\* ----------------------------------------------------------------- C20
\* The other BigInteger implementation.
OtherImpl(impl) == IF impl = "words" THEN "gmp" ELSE "words"

\* C20 as stated: bi_compare_0(x) is 0 exactly when x is zero, bi_compare_1(x)
\* is 0 exactly when x is 1, negative when x is smaller and positive when
\* larger, and each gives the same result in the two BigInteger
\* implementations.
C20_Original ==
    /\ bcall.fn = "bi_compare_0" =>
          /\ (bcall.ret = 0) <=> (bcall.x = 0)
          /\ bcall.ret = bi_compare_0(OtherImpl(bcall.impl), bcall.x)
    /\ bcall.fn = "bi_compare_1" =>
          /\ (bcall.ret = 0) <=> (bcall.x = 1)
          /\ bcall.x < 1 => bcall.ret < 0
          /\ bcall.x > 1 => bcall.ret > 0
          /\ bcall.ret = bi_compare_1(OtherImpl(bcall.impl), bcall.x)


\* ----------------------------------------------------------------- C21
RECURSIVE FloorLog2(_)
FloorLog2(n) == IF n <= 1 THEN 0 ELSE 1 + FloorLog2(n \div 2)

\* C21 as stated: bi_log2(n) terminates for every n >= 0 and returns
\* floor(log2(n)) for n >= 1, in both BigInteger implementations: the loop
\* never counts beyond floor(log2(n)), and the value returned is
\* floor(log2(n)).
C21_Original ==
    /\ bcall.fn = "bi_log2:loop" => bcall.ret <= FloorLog2(bcall.x)
    /\ (bcall.fn = "bi_log2" /\ bcall.x >= 1) => bcall.ret = FloorLog2(bcall.x)


\* ----------------------------------------------------------------- C22
\* C22 as stated: operator~ and bi_not_ip give the bitwise complement of x
\* over the bits of the type, so x & ~x is zero and x | ~x has every bit
\* set.
C22_Original ==
    bcall.fn \in {"operator~", "bi_not_ip"} =>
        /\ bcall.ret % Pow2(IndexBits) = Pow2(IndexBits) - 1 - bcall.x
        /\ bi_and(bcall.x, bcall.ret) = 0
        /\ BitOrN(bcall.x, bcall.ret % Pow2(IndexBits), IndexBits) = Pow2(IndexBits) - 1


\* ----------------------------------------------------------------- C23
\* C23 as stated: for a >= 0 and b > 0, a / b is floor(a / b) and a % b is
\* the remainder in [0, b), so (a / b) * b + (a % b) = a; /= and %= give
\* the same values.
C23_Original ==
    (bcall.fn \in {"operator/", "operator%", "operator/=", "operator%="}
        /\ bcall.x >= 0 /\ bcall.y > 0) =>
        /\ bcall.fn \in {"operator/", "operator/="} => bcall.ret = bcall.x \div bcall.y
        /\ bcall.fn \in {"operator%", "operator%="} =>
              /\ bcall.ret = bcall.x % bcall.y
              /\ bcall.ret >= 0
              /\ bcall.ret < bcall.y

\* ----------------------------------------------------------------- C25
\* C25 as stated: with the divisor 0, operator/, operator%, /= and %= never
\* hand the zero divisor to GMP and yield 0 for every dividend, a negative
\* one included.
C25_Original ==
    (bcall.fn \in {"operator/", "operator%", "operator/=", "operator%="} /\ bcall.y = 0) =>
        /\ ~bcall.trap
        /\ bcall.ret = 0


\* ----------------------------------------------------------------- C24
\* C24 as stated: for left >= 0 and right > 0, bi_div_mod_small and
\* bi_div_mod produce a quotient q and a remainder r with
\* left = q * right + r and 0 <= r < right.
C24_Original ==
    bcall.fn \in {"bi_div_mod_small", "bi_div_mod"} =>
        /\ bcall.x = bcall.ret * bcall.y + bcall.rem
        /\ bcall.rem >= 0
        /\ bcall.rem < bcall.y


\* ----------------------------------------------------------------- C26
\* C26 as stated: for x >= 0 and a shift s, x << s is x * 2^s, x >> s is
\* floor(x / 2^s) and (x << s) >> s is x, for <<, >>, <<= and >>= in both
\* BigInteger implementations.
C26_Original ==
    /\ bcall.fn \in {"operator<<", "operator<<="} => bcall.ret = bcall.x * Pow2(bcall.y)
    /\ bcall.fn \in {"operator>>", "operator>>="} => bcall.ret = bcall.x \div Pow2(bcall.y)
    /\ bcall.fn = "(x << s) >> s" => bcall.ret = bcall.x


\* ----------------------------------------------------------------- C27
\* The qubits FlushIfBlocked(target, controls) names; without controls the
\* call is FlushBuffer(target).
Named(op) == {op.t} \cup {op.cs[k] : k \in 1 .. Len(op.cs)}

\* C27: a flush changes nothing beyond the qubits it flushes. In every step
\* that is a call of FlushIfBlocked(target, controls) the buffer of every
\* qubit that is neither the target nor a control is unchanged, no
\* ApplySingle is called for a named qubit that has no pending buffer, and
\* when no named qubit has a pending buffer the tree and all buffers are
\* unchanged and ApplySingle is not called at all.
C27_FlushFrame ==
    [][lastOp'.op = "FlushIfBlocked" =>
          /\ \A q \in Qubits(qubitCount) \ Named(lastOp') : shards'[q] = shards[q]
          /\ \A q \in Named(lastOp') :
                shards[q] = NoShard =>
                    /\ shards'[q] = NoShard
                    /\ \A k \in 1 .. Len(lastOp'.log) : lastOp'.log[k][1] # q
          /\ (\A q \in Named(lastOp') : shards[q] = NoShard) =>
                /\ root' = root
                /\ shards' = shards
                /\ lastOp'.log = <<>>]_vars

\* FlushBuffer(target) was called on a qubit without a pending buffer while
\* another qubit had one, which is still pending.
C27_Witness ==
    /\ lastOp.op = "FlushIfBlocked"
    /\ lastOp.cs = <<>>
    /\ lastOp.pre[lastOp.t] = NoShard
    /\ lastOp.log = <<>>
    /\ \E q \in Qubits(qubitCount) \ {lastOp.t} :
          /\ lastOp.pre[q] # NoShard
          /\ shards[q] = lastOp.pre[q]

\* ----------------------------------------------------------------- C28
\* C28: in every interleaving of the four accounting calls, a thread that is
\* reading or writing a counter of activeAllocSizes holds allocMutex, and no
\* read of a counter overlaps another thread's update of it.
C28_Original ==
    \A t \in Workers :
        /\ athr[t].pc \in {"read", "write"} => allocMutex = t
        /\ ~athr[t].race

\* ----------------------------------------------------------------- C29
\* C29: a call whose dev does not index an entry of activeAllocSizes
\* (dev >= its size) is rejected at entry: the three updating functions throw
\* invalid_argument, GetActiveAllocSize returns 0, and the vector is never
\* indexed out of range.
C29_Original ==
    \A t \in Workers :
        (athr[t].fn # "none" /\ athr[t].dev >= NumDevices) =>
            /\ athr[t].pc = "done"
            /\ ~athr[t].oob
            /\ athr[t].ex = (athr[t].fn # "GetActiveAllocSize")
            /\ athr[t].fn = "GetActiveAllocSize" => athr[t].ret = 0

====
